---- MODULE Spec2Model ----
(***************************************************************************)
(* Model of the speaker_recognition integration.                           *)
(*                                                                         *)
(*   recognition.py   SpeakerRecognition: the voice identity engine        *)
(*   stt.py           SpeakerRecognitionSTTEntity: the speech bridge       *)
(*   conversation.py  SpeakerRecognitionConversationEntity: the            *)
(*                    conversation bridge                                  *)
(*                                                                         *)
(* Scores and confidence thresholds are integers that stand for tenths (a  *)
(* score of 9 is a similarity of 0.9): reference embeddings are unit        *)
(* vectors and the embedding of an audio buffer is given in tenths.  A     *)
(* readable audio file and a well-formed audio buffer are identified with  *)
(* the vector the encoder computes from them: the encoder is a             *)
(* deterministic function of the waveform.                                 *)
(***************************************************************************)
EXTENDS Integers, Sequences, FiniteSets, TLC

VARIABLES
    voice_samples,   \* SpeakerRecognition.voice_samples
    trained,         \* SpeakerRecognition._trained
    encoder,         \* SpeakerRecognition._encoder is not None
    refs,            \* SpeakerRecognition._reference_embeddings, in insertion order
    files,           \* the media directory: path -> state of the audio file
    cache,           \* the *_embedding.npy artifacts: cache path -> vector
    trainPc,         \* position of each train call in flight
    trainList,       \* the list object each _train_sync iterates over
    trainIdx,        \* index of the next sample of each trainList
    trainEmb,        \* the local `embedding` of each _train_sync
    enrolled,        \* indices of its trainList each call in flight has enrolled
    trainPrev,       \* the mapping each train call in flight found and replaced
    recPc,           \* position of the recognize call in flight
    recAudio,        \* audio_data of the recognize call in flight
    recIter,         \* the iteration over the mapping of the recognize call in flight
    recRet,          \* what _recognize_sync returned to the call that awaits it
    edits,           \* number of changes made to the media directory
    updates,         \* number of update_voice_samples calls made
    slot,            \* hass.data["speaker_recognition"]["last_result"]
    now,             \* hass.loop.time()
    convData,        \* min_confidence in the data of the conversation entry
    convOptions,     \* min_confidence in the options of the conversation entry
    agentAvail,      \* conversation.async_get_agent finds the wrapped agent
    convCall,        \* the async_process call that awaits the wrapped agent
    stt,             \* the async_process_audio_stream call in flight of each bridge
    engineAvail,     \* the main entry holds the engine as runtime_data
    host,            \* each platform's bridge entity and the entity it wraps
    mainPc,          \* position of the main entry in its set-up and reload
    mainCalls,       \* the call of the main entry that awaits each train call
    reloads,         \* calls of the options listener that await the reload
    lastOp           \* the step taken last and what it returned

engineVars == <<voice_samples, trained, encoder, refs, files, cache, trainPc,
                trainList, trainPrev, trainIdx, trainEmb, enrolled, recPc, recAudio, recIter, recRet, edits, updates>>

bridgeVars == <<slot, now, convData, convOptions, agentAvail, convCall, stt, engineAvail, host,
                mainPc, mainCalls, reloads>>

vars == <<engineVars, bridgeVars, lastOp>>

\* ------------------------------------------------------------------ bounds

MaxSamples == 3      \* longest configured sample list
MaxUpdates == 1      \* update_voice_samples calls in one behaviour
MaxEdits == 1        \* changes to the media directory in one behaviour
MaxJobs == 2         \* train calls in flight at one time
MaxListeners == 2    \* calls of the options listener in flight at one time
MaxTime == 6         \* latest reading of the loop clock

\* ----------------------------------------------------------------- domains

Owners == {"alice", "bob", "carol"}

Vectors == {<<1, 0>>, <<0, 1>>}

\* A media_content_id: `local` says whether it starts with
\* "media-source://media_source/local/"; stem and ext are those of the
\* relative path that follows the prefix.
Locators ==
    { [local |-> TRUE,  stem |-> "a", ext |-> "wav"],
      [local |-> TRUE,  stem |-> "a", ext |-> "mp3"],
      [local |-> TRUE,  stem |-> "b", ext |-> "wav"],
      [local |-> FALSE, stem |-> "a", ext |-> "wav"] }

Paths == { <<l.stem, l.ext>> : l \in {k \in Locators : k.local} }

Stems == { l.stem : l \in Locators }

\* The configured samples: {"user": ..., "samples": {"media_content_id": ...}}
Samples ==
    { [user |-> "alice", media_id |-> [local |-> TRUE,  stem |-> "a", ext |-> "wav"]],
      [user |-> "bob",   media_id |-> [local |-> TRUE,  stem |-> "b", ext |-> "wav"]],
      [user |-> "bob",   media_id |-> [local |-> TRUE,  stem |-> "a", ext |-> "wav"]],
      [user |-> "carol", media_id |-> [local |-> TRUE,  stem |-> "a", ext |-> "mp3"]],
      [user |-> "carol", media_id |-> [local |-> FALSE, stem |-> "a", ext |-> "wav"]] }

SampleLists == UNION { [1..n -> Samples] : n \in 0..MaxSamples }

\* State of an audio file: whether it exists, and the waveform the decoder
\* gets from it (<<>> when the file cannot be decoded).
FileStates ==
    {[exists |-> FALSE, wave |-> <<>>], [exists |-> TRUE, wave |-> <<>>]}
        \cup {[exists |-> TRUE, wave |-> v] : v \in Vectors}

\* audio_data of a recognize call: no bytes, an odd number of bytes (no PCM16
\* buffer), or a PCM16 buffer with its waveform (<<>> when pre-processing or
\* the encoder fails on it).
NoAudio == [bytes |-> "empty", wave |-> <<>>]

Audios ==
    {NoAudio, [bytes |-> "odd", wave |-> <<>>]}
        \cup {[bytes |-> "pcm", wave |-> v] : v \in {<<>>, <<9, 1>>, <<5, 5>>}}

\* ------------------------------------------------------------ dict helpers
\* A Python dict is a sequence of [key, value] in insertion order.

Keys(d) == { d[i].key : i \in 1..Len(d) }

KeyIndex(d, k) == CHOOSE i \in 1..Len(d) : d[i].key = k

Get(d, k) == d[KeyIndex(d, k)].value

\* d[k] = v: a new key is appended, an existing key keeps its position.
SetItem(d, k, v) ==
    IF k \in Keys(d)
    THEN [d EXCEPT ![KeyIndex(d, k)] = [key |-> k, value |-> v]]
    ELSE Append(d, [key |-> k, value |-> v])

\* np.dot of two vectors of the same dimension.
Dot(a, b) == a[1] * b[1] + a[2] * b[2]

\* An iterator over the items of a dict: whether the dict is the object the
\* engine holds as _reference_embeddings (`live`) or one the engine has
\* replaced since (`old`, which nothing writes to any more), the size of the
\* dict when the iterator was created, the number of items it has yielded,
\* and the scores the loop that runs it has computed.
NoIter == [live |-> FALSE, old |-> <<>>, used |-> 0, pos |-> 0, scores |-> <<>>]

\* iter(d.items()) on the dict the engine holds.
items_iter(d) == [live |-> TRUE, old |-> <<>>, used |-> Len(d), pos |-> 0, scores |-> <<>>]

\* The dict an iterator runs over, `rf` being the one the engine holds.
iter_dict(it, rf) == IF it.live THEN rf ELSE it.old

\* The engine binds a new dict to _reference_embeddings: an iterator over the
\* dict `rf` it held goes on over that object.
iter_detach(it, rf) == IF it.live THEN [it EXCEPT !.live = FALSE, !.old = rf] ELSE it

\* ------------------------------------------------------------------ paths

\* Path(hass.config.path("media")) / relative_path
FullPath(media_id) == <<media_id.stem, media_id.ext>>

\* full_path.parent / f"{full_path.stem}_embedding.npy"
EmbeddingPath(full_path) == full_path[1]

\* ----------------------------------------------------------------- results

Absent == [kind |-> "none"]

Raised == [kind |-> "raise"]

Result(user, score, scores) ==
    [kind |-> "result", user_id |-> user, confidence |-> score, all_scores |-> scores]

\* No request: nothing was forwarded.
NoRequest == [kind |-> "none"]

\* What a step reports in lastOp: the operation, whether it invoked the
\* encoder (preprocess_wav / embed_utterance), what it returned, for a
\* recognize call its audio_data, for a train call that completed the list
\* it ran over and the indices of the samples it enrolled, and for a process
\* call of the conversation bridge its request and the request it forwarded.
LastOp(name, backend, result, audio, samples, idxs, request, forwarded) ==
    [op |-> name, backend |-> backend, result |-> result, audio |-> audio,
     samples |-> samples, enrolled |-> idxs,
     request |-> request, forwarded |-> forwarded]

Op(name, backend, result) ==
    LastOp(name, backend, result, NoAudio, <<>>, <<>>, NoRequest, NoRequest)

TrainOp(name, samples, idxs) ==
    LastOp(name, FALSE, Absent, NoAudio, samples, idxs, NoRequest, NoRequest)

RecognizeOp(name, backend, result, audio) ==
    LastOp(name, backend, result, audio, <<>>, <<>>, NoRequest, NoRequest)

\* A process call of the conversation bridge: the request it was given, the
\* request it forwarded to the wrapped agent, the result it returned and
\* whether it built a new request.
ProcessOp(name, result, request, forwarded, built) ==
    [op |-> name, backend |-> FALSE, result |-> result, audio |-> NoAudio,
     samples |-> <<>>, enrolled |-> <<>>,
     request |-> request, forwarded |-> forwarded, built |-> built]

\* ------------------------------------------------- SpeakerRecognition: train

\* Lines 71-88: the audio file and the cache artifact of a sample.
full_path_of(sample) == FullPath(sample.media_id)

embedding_path_of(sample) == EmbeddingPath(full_path_of(sample))

\* The artifact np.save has created or truncated and not yet written: a file
\* that exists and that np.load cannot read.
Truncated == <<0>>

\* Line 94, embedding_path.exists(): the artifact is there, written or not.
embedding_exists(sample, ch) == ch[embedding_path_of(sample)] # <<>>

\* Line 96, np.load(embedding_path): the vector of the artifact, <<>> when
\* the call raises (the artifact is being written).
np_load(sample, ch) ==
    IF ch[embedding_path_of(sample)] = Truncated
    THEN <<>>
    ELSE ch[embedding_path_of(sample)]

\* Line 99, full_path.exists().
file_exists(sample, fl) == fl[full_path_of(sample)].exists

\* Lines 108-109, preprocess_wav and embed_utterance on the audio file: the
\* embedding, <<>> when one of them raises (the file is gone or cannot be
\* decoded).
embed_file(sample, fl) ==
    IF fl[full_path_of(sample)].exists THEN fl[full_path_of(sample)].wave ELSE <<>>

\* Line 112, np.save(embedding_path, embedding), which opens the artifact for
\* writing, so that it is created or truncated, ...
np_save_open(sample, ch) == [ch EXCEPT ![embedding_path_of(sample)] = Truncated]

\* ... and then writes the vector to it.
np_save_write(sample, ch, embedding) ==
    [ch EXCEPT ![embedding_path_of(sample)] = embedding]

\* Line 112 when no other thread runs in between.
np_save(sample, ch, embedding) ==
    np_save_write(sample, np_save_open(sample, ch), embedding)

\* Line 115, self._reference_embeddings[user_id] = embedding.
assign_embedding(sample, rf, embedding) == SetItem(rf, sample.user, embedding)

\* One iteration of the loop of _train_sync over `sample` when no other
\* thread runs in between, given the mapping, the cache artifacts and the
\* media directory: the new mapping and cache, whether the sample was
\* enrolled, and whether the encoder was invoked.
train_sample(sample, rf, ch, fl) ==
    LET skip(backend) ==
            [refs |-> rf, cache |-> ch, enrolled |-> FALSE, backend |-> backend]
    IN  IF ~sample.media_id.local
        THEN skip(FALSE)                                \* unsupported format
        ELSE IF embedding_exists(sample, ch)
        THEN IF np_load(sample, ch) = <<>>
             THEN skip(FALSE)                           \* np.load raises
             ELSE [refs |-> assign_embedding(sample, rf, np_load(sample, ch)),
                   cache |-> ch, enrolled |-> TRUE, backend |-> FALSE]
        ELSE IF ~file_exists(sample, fl)
        THEN skip(FALSE)                                \* file not found
        ELSE IF embed_file(sample, fl) = <<>>
        THEN skip(TRUE)                                 \* preprocess_wav raises
        ELSE [refs |-> assign_embedding(sample, rf, embed_file(sample, fl)),
              cache |-> np_save(sample, ch, embed_file(sample, fl)),
              enrolled |-> TRUE, backend |-> TRUE]

\* The flag _train_sync sets after its loop.
train_flag(rf) == rf # <<>>

\* The train calls that are in flight at one time: each is one _train_sync on
\* a worker thread of the executor.
Jobs == 1..MaxJobs

\* A train call that is not in flight, given the positions of all.
free_job(pcs) == CHOOSE j \in Jobs :
                    /\ pcs[j] = "idle"
                    /\ \A k \in Jobs : pcs[k] = "idle" => j <= k

\* async_train, up to the hand-over to the executor.  With no sample
\* configured it returns at once and leaves the mapping alone.  Nothing keeps
\* a call from being made while another is in flight; MaxJobs caps the calls
\* in flight.
async_train ==
    /\ IF voice_samples = <<>>
       THEN /\ trained' = FALSE
            /\ lastOp' = Op("train_done", FALSE, Absent)
            /\ UNCHANGED trainPc
       ELSE /\ \E j \in Jobs : trainPc[j] = "idle"
            /\ trainPc' = [trainPc EXCEPT ![free_job(trainPc)] = "queued"]
            /\ lastOp' = Op("train_call", FALSE, Absent)
            /\ UNCHANGED trained
    /\ UNCHANGED <<voice_samples, encoder, refs, files, cache, trainList, trainPrev,
                   trainIdx, trainEmb, enrolled, recPc, recAudio, recIter, recRet, edits, updates>>
    /\ UNCHANGED bridgeVars

\* _train_sync on its worker thread, lines 64-68: the encoder is created if
\* needed and a new, empty dict is bound to _reference_embeddings.  A
\* _recognize_sync that iterates over the dict the engine held goes on over
\* that dict.
train_sync_begin(j) ==
    /\ trainPc[j] = "queued"
    /\ encoder' = TRUE
    /\ refs' = <<>>
    /\ recIter' = iter_detach(recIter, refs)
    /\ stt' = [entity_id \in DOMAIN stt |->
                 [stt[entity_id] EXCEPT !.iter = iter_detach(@, refs)]]
    /\ trainPrev' = [trainPrev EXCEPT ![j] = refs]
    /\ trainPc' = [trainPc EXCEPT ![j] = "reset"]
    /\ lastOp' = Op("train_begin", FALSE, Absent)
    /\ UNCHANGED <<voice_samples, trained, files, cache, trainList, trainIdx, trainEmb,
                   enrolled, recPc, recAudio, recRet, edits, updates>>
    /\ UNCHANGED <<slot, now, convData, convOptions, agentAvail, convCall, engineAvail, host,
                   mainPc, mainCalls, reloads>>

\* _train_sync, the for statement of line 70: the loop takes the list the
\* engine holds by then and keeps to that list object.
train_sync_loop(j) ==
    /\ trainPc[j] = "reset"
    /\ trainList' = [trainList EXCEPT ![j] = voice_samples]
    /\ trainIdx' = [trainIdx EXCEPT ![j] = 1]
    /\ enrolled' = [enrolled EXCEPT ![j] = <<>>]
    /\ trainPc' = [trainPc EXCEPT ![j] = "loop"]
    /\ lastOp' = Op("train_loop", FALSE, Absent)
    /\ UNCHANGED <<voice_samples, trained, encoder, refs, files, cache, trainPrev,
                   trainEmb, recPc, recAudio, recIter, recRet, edits, updates>>
    /\ UNCHANGED bridgeVars

\* What a step of an iteration leaves alone.
train_step_frame ==
    /\ UNCHANGED <<voice_samples, trained, encoder, files, trainList, trainPrev,
                   recPc, recAudio, recIter, recRet, edits, updates>>
    /\ UNCHANGED bridgeVars

\* The iteration of train call j goes on at `pc`.
train_goto(j, pc) ==
    /\ trainPc' = [trainPc EXCEPT ![j] = pc]
    /\ UNCHANGED <<trainIdx, enrolled>>

\* `continue`: the iteration of train call j ends and its sample is skipped.
train_continue(j) ==
    /\ trainPc' = [trainPc EXCEPT ![j] = "loop"]
    /\ trainIdx' = [trainIdx EXCEPT ![j] = @ + 1]
    /\ trainEmb' = [trainEmb EXCEPT ![j] = <<>>]
    /\ UNCHANGED enrolled

\* _train_sync, lines 70-94: the loop takes its next sample, resolves its
\* locator and looks whether its cache artifact exists.
train_sync_sample(j) ==
    /\ trainPc[j] = "loop"
    /\ trainIdx[j] <= Len(trainList[j])
    /\ LET sample == trainList[j][trainIdx[j]]
       IN  IF ~sample.media_id.local
           THEN train_continue(j)                       \* unsupported format
           ELSE IF embedding_exists(sample, cache)
           THEN train_goto(j, "load") /\ UNCHANGED trainEmb
           ELSE train_goto(j, "check") /\ UNCHANGED trainEmb
    /\ lastOp' = Op("train_sample", FALSE, Absent)
    /\ UNCHANGED <<refs, cache>>
    /\ train_step_frame

\* _train_sync, line 96: the artifact is loaded as it is by then; np.load
\* raises on an artifact another call has opened and not yet written, and the
\* except clause of line 118 ends the iteration.
train_sync_load(j) ==
    /\ trainPc[j] = "load"
    /\ LET embedding == np_load(trainList[j][trainIdx[j]], cache)
       IN  IF embedding = <<>>
           THEN train_continue(j)                       \* np.load raises
           ELSE /\ trainEmb' = [trainEmb EXCEPT ![j] = embedding]
                /\ train_goto(j, "assign")
    /\ lastOp' = Op("train_load", FALSE, Absent)
    /\ UNCHANGED <<refs, cache>>
    /\ train_step_frame

\* _train_sync, lines 99-105: without an artifact the audio file is looked
\* for.
train_sync_exists(j) ==
    /\ trainPc[j] = "check"
    /\ IF file_exists(trainList[j][trainIdx[j]], files)
       THEN train_goto(j, "embed") /\ UNCHANGED trainEmb
       ELSE train_continue(j)                           \* file not found
    /\ lastOp' = Op("train_exists", FALSE, Absent)
    /\ UNCHANGED <<refs, cache>>
    /\ train_step_frame

\* _train_sync, lines 108-109: the audio file is decoded and embedded; an
\* exception ends the iteration in the except clause of line 118.
train_sync_embed(j) ==
    /\ trainPc[j] = "embed"
    /\ LET embedding == embed_file(trainList[j][trainIdx[j]], files)
       IN  IF embedding = <<>>
           THEN train_continue(j)                       \* preprocess_wav raises
           ELSE /\ trainEmb' = [trainEmb EXCEPT ![j] = embedding]
                /\ train_goto(j, "save")
    /\ lastOp' = Op("train_embed", TRUE, Absent)
    /\ UNCHANGED <<refs, cache>>
    /\ train_step_frame

\* _train_sync, line 112, np.save opens the artifact: the artifact is created
\* or, whatever it holds by then, truncated.
train_sync_save(j) ==
    /\ trainPc[j] = "save"
    /\ cache' = np_save_open(trainList[j][trainIdx[j]], cache)
    /\ train_goto(j, "write")
    /\ lastOp' = Op("train_save", FALSE, Absent)
    /\ UNCHANGED <<refs, trainEmb>>
    /\ train_step_frame

\* _train_sync, line 112, np.save writes the embedding computed to the
\* artifact and returns.
train_sync_write(j) ==
    /\ trainPc[j] = "write"
    /\ cache' = np_save_write(trainList[j][trainIdx[j]], cache, trainEmb[j])
    /\ train_goto(j, "assign")
    /\ lastOp' = Op("train_write", FALSE, Absent)
    /\ UNCHANGED <<refs, trainEmb>>
    /\ train_step_frame

\* _train_sync, line 115: the embedding is assigned to the mapping the engine
\* holds by then, whichever call created it, and the iteration ends.
train_sync_assign(j) ==
    /\ trainPc[j] = "assign"
    /\ refs' = assign_embedding(trainList[j][trainIdx[j]], refs, trainEmb[j])
    /\ enrolled' = [enrolled EXCEPT ![j] = Append(@, trainIdx[j])]
    /\ trainIdx' = [trainIdx EXCEPT ![j] = @ + 1]
    /\ trainEmb' = [trainEmb EXCEPT ![j] = <<>>]
    /\ trainPc' = [trainPc EXCEPT ![j] = "loop"]
    /\ lastOp' = Op("train_assign", FALSE, Absent)
    /\ UNCHANGED cache
    /\ train_step_frame

\* _train_sync after the loop, line 124: the for statement finds its list
\* exhausted and the mapping the engine holds by then is tested.
train_sync_test(j) ==
    /\ trainPc[j] = "loop"
    /\ trainIdx[j] > Len(trainList[j])
    /\ trainPc' = [trainPc EXCEPT ![j] = IF train_flag(refs) THEN "set" ELSE "clear"]
    /\ lastOp' = Op("train_test", FALSE, Absent)
    /\ UNCHANGED <<refs, cache, trainIdx, trainEmb, enrolled>>
    /\ train_step_frame

\* _train_sync, lines 125-131: the flag is assigned as the test of line 124
\* came out, whatever the mapping holds by now, and the worker thread ends.
\* async_train, which awaits the job at line 57, has yet to be resumed by the
\* event loop.
train_sync_end(j) ==
    /\ trainPc[j] \in {"set", "clear"}
    /\ trained' = (trainPc[j] = "set")
    /\ trainPc' = [trainPc EXCEPT ![j] = "returned"]
    /\ trainPrev' = [trainPrev EXCEPT ![j] = <<>>]
    /\ trainIdx' = [trainIdx EXCEPT ![j] = 1]
    /\ lastOp' = Op("train_end", FALSE, Absent)
    /\ UNCHANGED <<voice_samples, encoder, refs, files, cache, trainList, trainEmb, enrolled,
                   recPc, recAudio, recIter, recRet, edits, updates>>
    /\ UNCHANGED bridgeVars

\* The call of train call j has returned: the job is free again.
train_release(j) ==
    /\ trainPc' = [trainPc EXCEPT ![j] = "idle"]
    /\ trainList' = [trainList EXCEPT ![j] = <<>>]
    /\ enrolled' = [enrolled EXCEPT ![j] = <<>>]

\* async_train, lines 57-59: the event loop resumes the call once the job on
\* the worker thread has ended, and the call returns to its caller, here one
\* other than the main entry; a call of the main entry goes on in
\* main_train_returned.
async_train_return(j) ==
    /\ trainPc[j] = "returned"
    /\ mainCalls[j] = "none"
    /\ train_release(j)
    /\ lastOp' = TrainOp("train_done", trainList[j], enrolled[j])
    /\ UNCHANGED <<voice_samples, trained, encoder, refs, files, cache, trainPrev, trainIdx,
                   trainEmb, recPc, recAudio, recIter, recRet, edits, updates>>
    /\ UNCHANGED bridgeVars

\* update_voice_samples: the list is stored and the flag cleared, whatever
\* train call is in flight.
update_voice_samples(samples) ==
    /\ updates < MaxUpdates
    /\ updates' = updates + 1
    /\ voice_samples' = samples
    /\ trained' = FALSE
    /\ lastOp' = Op("update", FALSE, Absent)
    /\ UNCHANGED <<encoder, refs, files, cache, trainPc, trainList, trainPrev, trainIdx, trainEmb,
                   enrolled, recPc, recAudio, recIter, recRet, edits>>
    /\ UNCHANGED bridgeVars

\* --------------------------------------------- SpeakerRecognition: recognize

\* max(scores, key=scores.get): the first key, in the dict's order, whose
\* value no other value exceeds.
MaxKey(scores) ==
    LET best == CHOOSE i \in 1..Len(scores) :
                    /\ \A j \in 1..Len(scores) : scores[j].value <= scores[i].value
                    /\ \A j \in 1..(i - 1) : scores[j].value < scores[i].value
    IN  scores[best].key

\* _recognize_sync goes on: it has the embedding of the audio, or it has
\* scored one more item of the mapping.
Embedded == [kind |-> "embedded"]

Scored == [kind |-> "scored"]

\* Lines 165-178 of _recognize_sync, the body of the try block up to the
\* embedding of the audio: what it returns or that it raises, and whether it
\* invoked the encoder.
recognize_embed(audio_data, enc) ==
    IF audio_data.bytes = "odd"
    THEN [out |-> Raised, backend |-> FALSE, iter |-> NoIter]   \* np.frombuffer: ValueError
    ELSE IF audio_data.bytes = "empty"
    THEN [out |-> Absent, backend |-> FALSE, iter |-> NoIter]   \* size == 0
    ELSE IF ~enc \/ audio_data.wave = <<>>
    THEN [out |-> Raised, backend |-> TRUE, iter |-> NoIter]    \* the encoder fails
    ELSE [out |-> Embedded, backend |-> TRUE, iter |-> NoIter]

\* Lines 181-196 of _recognize_sync, one pass of the for statement over the
\* items of the mapping, with the iterator `it` and the dict `rf` the engine
\* holds by then: the iterator raises RuntimeError when its dict has changed
\* size since it was created; else it yields the next item as it is by then,
\* which is scored (182-183); and when no item is left the loop ends and the
\* best match is returned (185-196).
recognize_next(it, rf, chunk_embed) ==
    LET d == iter_dict(it, rf)
    IN  IF Len(d) # it.used
        THEN [out |-> Raised, backend |-> TRUE, iter |-> NoIter]
        ELSE IF it.pos < it.used
        THEN LET item == d[it.pos + 1]
                 similarity == Dot(item.value, chunk_embed)
             IN  [out |-> Scored, backend |-> TRUE,
                  iter |-> [it EXCEPT !.pos = @ + 1,
                                      !.scores = Append(@, [key |-> item.key,
                                                            value |-> similarity])]]
        ELSE IF it.scores = <<>>
        THEN [out |-> Absent, backend |-> TRUE, iter |-> NoIter]
        ELSE LET best_user == MaxKey(it.scores)
             IN  [out |-> Result(best_user, Get(it.scores, best_user), it.scores),
                  backend |-> TRUE, iter |-> NoIter]

\* Variant: no except clause.
recognize_sync_uncaught(b) == b

\* _recognize_sync: the except clause of its try block, which turns every
\* exception of the body into None.
recognize_sync(b) ==
    IF b.out = Raised THEN [b EXCEPT !.out = Absent] ELSE b

\* The guards of async_recognize: TRUE when the call goes on to the executor.
recognize_guard(tr, rf) == tr /\ rf # <<>>

\* async_recognize, up to the hand-over to the executor.
async_recognize(audio_data) ==
    /\ recPc = "idle"
    /\ IF recognize_guard(trained, refs)
       THEN /\ recPc' = "queued"
            /\ recAudio' = audio_data
            /\ lastOp' = Op("recognize_call", FALSE, Absent)
       ELSE /\ lastOp' = RecognizeOp("recognize_done", FALSE, Absent, audio_data)
            /\ UNCHANGED <<recPc, recAudio>>
    /\ UNCHANGED <<voice_samples, trained, encoder, refs, files, cache, trainPc,
                   trainList, trainPrev, trainIdx, trainEmb, enrolled, recIter, recRet, edits, updates>>
    /\ UNCHANGED bridgeVars

\* What a step of _recognize_sync leaves alone.
recognize_step_frame ==
    /\ UNCHANGED <<voice_samples, trained, encoder, refs, files, cache, trainPc,
                   trainList, trainPrev, trainIdx, trainEmb, enrolled, edits, updates>>
    /\ UNCHANGED bridgeVars

\* No value returned by _recognize_sync is awaited.
NoReturn == [out |-> Absent, backend |-> FALSE]

\* _recognize_sync returns `r` and its worker thread ends; async_recognize,
\* which awaits the job at line 154, has yet to be resumed by the event loop.
recognize_sync_return(r) ==
    /\ recRet' = [out |-> r.out, backend |-> r.backend]
    /\ recPc' = "returned"
    /\ recIter' = NoIter
    /\ lastOp' = Op("recognize_end", r.backend, Absent)
    /\ UNCHANGED recAudio

\* _recognize_sync on its worker thread, lines 163-181: the audio is embedded
\* and the for statement creates its iterator over the items of the mapping
\* the engine holds by then.
recognize_sync_run ==
    /\ recPc = "queued"
    /\ LET r == recognize_sync(recognize_embed(recAudio, encoder))
       IN  IF r.out = Embedded
           THEN /\ recPc' = "scoring"
                /\ recIter' = items_iter(refs)
                /\ lastOp' = Op("recognize_embed", r.backend, Absent)
                /\ UNCHANGED <<recAudio, recRet>>
           ELSE recognize_sync_return(r)
    /\ recognize_step_frame

\* _recognize_sync, lines 181-196: one pass of the for statement; the last one
\* ends the loop and the worker thread returns.  A train call may write to
\* the mapping between two passes.
recognize_sync_next ==
    /\ recPc = "scoring"
    /\ LET r == recognize_sync(recognize_next(recIter, refs, recAudio.wave))
       IN  IF r.out = Scored
           THEN /\ recIter' = r.iter
                /\ lastOp' = Op("recognize_score", r.backend, Absent)
                /\ UNCHANGED <<recPc, recAudio, recRet>>
           ELSE recognize_sync_return(r)
    /\ recognize_step_frame

\* async_recognize, lines 154-157: the event loop resumes the call once the
\* job on the worker thread has ended, and the call returns what
\* _recognize_sync returned.
async_recognize_return ==
    /\ recPc = "returned"
    /\ lastOp' = RecognizeOp("recognize_done", recRet.backend, recRet.out, recAudio)
    /\ recPc' = "idle"
    /\ recAudio' = NoAudio
    /\ recRet' = NoReturn
    /\ UNCHANGED recIter
    /\ recognize_step_frame

\* -------------------------------------------------------------- environment

\* The media directory changes: an audio file is replaced, damaged, deleted
\* or created.
file_edit(path, st) ==
    /\ edits < MaxEdits
    /\ files[path] # st
    /\ files' = [files EXCEPT ![path] = st]
    /\ edits' = edits + 1
    /\ lastOp' = Op("file_edit", FALSE, Absent)
    /\ UNCHANGED <<voice_samples, trained, encoder, refs, cache, trainPc,
                   trainList, trainPrev, trainIdx, trainEmb, enrolled, recPc, recAudio, recIter, recRet, updates>>
    /\ UNCHANGED bridgeVars

\* ------------------------------------------------------------ speech bridge

\* const.py: DEFAULT_MIN_CONFIDENCE = 0.0
DEFAULT_MIN_CONFIDENCE == 0

NoEntry == [kind |-> "none"]

\* The dict async_process_audio_stream stores as last_result.
Entry(user_id, confidence, timestamp) ==
    [kind |-> "entry", user_id |-> user_id, confidence |-> confidence,
     timestamp |-> timestamp]

NoSpeech == [kind |-> "none"]

\* What the wrapped speech-to-text entity may return.
SpeechResults ==
    { [kind |-> "speech", text |-> "hello", state |-> "success"],
      [kind |-> "speech", text |-> "", state |-> "error"] }

\* SpeechResult(None, SpeechResultState.ERROR)
SourceNotFound == [kind |-> "speech", text |-> "None", state |-> "error"]

\* The speech bridges, named by their entity_id.
Bridges == {"stt.hall", "stt.kitchen"}

\* The chunks of an audio stream are sequences of bytes.  A buffer of two
\* bytes is a PCM16 buffer the encoder embeds, identified with its embedding
\* in tenths.
Streams ==
    { <<>>,
      << <<9, 1>> >>,
      << <<1, 9>> >>,
      << <<5, 5>>, <<>> >>,
      << <<9>>, <<1>> >>,
      << <<9, 1>>, <<5, 5>> >> }

\* audio_buffer.extend(chunk)
extend(audio_buffer, chunk) == audio_buffer \o chunk

\* bytes(audio_buffer) as audio_data of async_recognize: no bytes, an odd
\* number of bytes, or a PCM16 buffer; the encoder embeds a buffer of two
\* bytes and fails on a longer one.
audio_of(audio_buffer) ==
    IF audio_buffer = <<>> THEN NoAudio
    ELSE IF Len(audio_buffer) % 2 = 1 THEN [bytes |-> "odd", wave |-> <<>>]
    ELSE IF Len(audio_buffer) = 2 THEN [bytes |-> "pcm", wave |-> audio_buffer]
    ELSE [bytes |-> "pcm", wave |-> <<>>]

\* The exceptions the except clause of async_process_audio_stream catches.
CaughtErrors == {"OSError", "ValueError", "TypeError"}

\* self.recognition: the runtime_data of the main entry, an attribute the
\* entry has only while it is loaded.
recognition_lookup(avail) == IF avail THEN "engine" ELSE "AttributeError"

\* Variant: the fields of the entry are stored one by one and the store of
\* the confidence is lost when the slot holds an entry.
publish_torn(sl, recognition_result, time) ==
    IF recognition_result.kind = "result"
    THEN IF sl # NoEntry
         THEN Entry(recognition_result.user_id, sl.confidence, time)
         ELSE Entry(recognition_result.user_id, recognition_result.confidence, time)
    ELSE sl

\* Variant: an entry of the slot is kept unless the new result is more
\* confident.
publish_keep_best(sl, recognition_result, time) ==
    IF recognition_result.kind = "result"
    THEN IF sl # NoEntry /\ sl.confidence >= recognition_result.confidence
         THEN sl
         ELSE Entry(recognition_result.user_id, recognition_result.confidence, time)
    ELSE sl

\* The slot after async_process_audio_stream has handled recognition_result.
publish(sl, recognition_result, time) ==
    IF recognition_result.kind = "result"
    THEN Entry(recognition_result.user_id, recognition_result.confidence, time)
    ELSE sl

\* Variant: the event is fired twice.
fire_twice(entity_id, recognition_result) ==
    IF recognition_result.kind = "result"
    THEN LET event == [type |-> "speaker_recognition_detected",
                       user_id |-> recognition_result.user_id,
                       confidence |-> recognition_result.confidence,
                       all_scores |-> recognition_result.all_scores,
                       entity_id |-> entity_id]
         IN  <<event, event>>
    ELSE <<>>

\* The events async_process_audio_stream fires on the bus for
\* recognition_result.
fire(entity_id, recognition_result) ==
    IF recognition_result.kind = "result"
    THEN << [type |-> "speaker_recognition_detected",
             user_id |-> recognition_result.user_id,
             confidence |-> recognition_result.confidence,
             all_scores |-> recognition_result.all_scores,
             entity_id |-> entity_id] >>
    ELSE <<>>

\* An async_process_audio_stream call: its position, the chunks the stream it
\* was given yields and how many of them the wrapped entity has pulled, the
\* chunks the wrapped entity received, audio_buffer, the result of the
\* wrapped entity, the result of _recognize_sync with whether it invoked the
\* encoder, whether the stream was aborted, and the iteration of its
\* _recognize_sync over the mapping.
Call(pc, stream, pos, delivered, audio_buffer, result, recognition_result, backend) ==
    [pc |-> pc, stream |-> stream, pos |-> pos, delivered |-> delivered,
     buffer |-> audio_buffer, result |-> result,
     recognition |-> recognition_result, backend |-> backend,
     aborted |-> FALSE, iter |-> NoIter]

NoCall == Call("idle", <<>>, 0, <<>>, <<>>, NoSpeech, Absent, FALSE)

\* What the return of an async_process_audio_stream call reports in lastOp:
\* the bridge, what the call returned, the call as it stood, whether it
\* invoked async_recognize, the events it fired and whether it replaced an
\* entry of the slot by another.
SttOp(entity_id, result, call, invoked, events, replaced) ==
    [op |-> "stt_done", backend |-> call.backend, result |-> result,
     audio |-> audio_of(call.buffer), samples |-> <<>>, enrolled |-> <<>>,
     request |-> NoRequest, forwarded |-> NoRequest,
     entity_id |-> entity_id, wrapped |-> call.result,
     stream |-> call.stream, delivered |-> call.delivered,
     buffer |-> call.buffer, recognition |-> call.recognition,
     invoked |-> invoked, events |-> events, replaced |-> replaced,
     aborted |-> call.aborted]

\* async_process_audio_stream, up to the call of the wrapped entity: without
\* a wrapped entity the call returns an error result at once.
stt_process_audio_stream(entity_id, found, stream) ==
    /\ stt[entity_id].pc = "idle"
    /\ IF ~found
       THEN /\ lastOp' = SttOp(entity_id, SourceNotFound,
                               [NoCall EXCEPT !.stream = stream], FALSE, <<>>, FALSE)
            /\ UNCHANGED stt
       ELSE /\ stt' = [stt EXCEPT ![entity_id] =
                         Call("stream", stream, 0, <<>>, <<>>, NoSpeech, Absent, FALSE)]
            /\ lastOp' = Op("stt_call", FALSE, Absent)
    /\ UNCHANGED engineVars
    /\ UNCHANGED <<slot, now, convData, convOptions, agentAvail, convCall, engineAvail, host,
                   mainPc, mainCalls, reloads>>

\* buffered_stream: the wrapped entity pulls the next chunk, which is added
\* to audio_buffer and yielded.
stt_buffered_stream(entity_id) ==
    /\ stt[entity_id].pc = "stream"
    /\ stt[entity_id].pos < Len(stt[entity_id].stream)
    /\ LET call == stt[entity_id]
           chunk == call.stream[call.pos + 1]
       IN  stt' = [stt EXCEPT ![entity_id] =
                     [call EXCEPT !.pos = call.pos + 1,
                                  !.buffer = extend(call.buffer, chunk),
                                  !.delivered = Append(call.delivered, chunk)]]
    /\ lastOp' = Op("stt_chunk", FALSE, Absent)
    /\ UNCHANGED engineVars
    /\ UNCHANGED <<slot, now, convData, convOptions, agentAvail, convCall, engineAvail, host,
                   mainPc, mainCalls, reloads>>

\* The stream is aborted: it yields no chunk beyond those the wrapped entity
\* has pulled, and audio_buffer stays as it is.
stt_stream_abort(entity_id) ==
    /\ stt[entity_id].pc = "stream"
    /\ stt[entity_id].pos < Len(stt[entity_id].stream)
    /\ LET call == stt[entity_id]
       IN  stt' = [stt EXCEPT ![entity_id] =
                     [call EXCEPT !.stream = SubSeq(call.stream, 1, call.pos),
                                  !.aborted = TRUE]]
    /\ lastOp' = Op("stt_abort", FALSE, Absent)
    /\ UNCHANGED engineVars
    /\ UNCHANGED <<slot, now, convData, convOptions, agentAvail, convCall, engineAvail, host,
                   mainPc, mainCalls, reloads>>

\* The wrapped entity returns `result`, having pulled the whole stream or a
\* part of it, and async_process_audio_stream goes on up to the hand-over of
\* recognition to the executor.  With an empty audio_buffer, or on an engine
\* that async_recognize finds untrained, the call returns `result` at once;
\* an exception of the look-up of the engine that the except clause does not
\* catch leaves the call.
stt_source_return(entity_id, result) ==
    /\ stt[entity_id].pc = "stream"
    /\ LET call == [stt[entity_id] EXCEPT !.result = result]
           error == recognition_lookup(engineAvail)
       IN  IF call.buffer = <<>>
           THEN /\ lastOp' = SttOp(entity_id, result, call, FALSE, <<>>, FALSE)
                /\ stt' = [stt EXCEPT ![entity_id] = NoCall]
           ELSE IF error # "engine"
           THEN /\ lastOp' = SttOp(entity_id,
                                   IF error \in CaughtErrors THEN result ELSE Raised,
                                   call, FALSE, <<>>, FALSE)
                /\ stt' = [stt EXCEPT ![entity_id] = NoCall]
           ELSE IF ~recognize_guard(trained, refs)
           THEN /\ lastOp' = SttOp(entity_id, result, call, TRUE, <<>>, FALSE)
                /\ stt' = [stt EXCEPT ![entity_id] = NoCall]
           ELSE /\ lastOp' = Op("stt_recognize_call", FALSE, Absent)
                /\ stt' = [stt EXCEPT ![entity_id] = [call EXCEPT !.pc = "recognize"]]
    /\ UNCHANGED engineVars
    /\ UNCHANGED <<slot, now, convData, convOptions, agentAvail, convCall, engineAvail, host,
                   mainPc, mainCalls, reloads>>

\* _recognize_sync on its worker thread, for the call of the bridge, lines
\* 163-181: the audio is embedded and the for statement creates its iterator
\* over the items of the mapping the engine holds by then.
stt_recognize_sync(entity_id) ==
    /\ stt[entity_id].pc = "recognize"
    /\ LET call == stt[entity_id]
           r == recognize_sync(recognize_embed(audio_of(call.buffer), encoder))
       IN  stt' = [stt EXCEPT ![entity_id] =
                     IF r.out = Embedded
                     THEN [call EXCEPT !.pc = "scoring",
                                       !.iter = items_iter(refs),
                                       !.backend = r.backend]
                     ELSE [call EXCEPT !.pc = "recognized",
                                       !.recognition = r.out,
                                       !.backend = r.backend]]
    /\ lastOp' = Op("stt_recognize_sync", FALSE, Absent)
    /\ UNCHANGED engineVars
    /\ UNCHANGED <<slot, now, convData, convOptions, agentAvail, convCall, engineAvail, host,
                   mainPc, mainCalls, reloads>>

\* _recognize_sync for the call of the bridge, lines 181-196: one pass of the
\* for statement; the last one ends the loop.  A train call may write to the
\* mapping between two passes.
stt_recognize_next(entity_id) ==
    /\ stt[entity_id].pc = "scoring"
    /\ LET call == stt[entity_id]
           r == recognize_sync(recognize_next(call.iter, refs,
                                              audio_of(call.buffer).wave))
       IN  stt' = [stt EXCEPT ![entity_id] =
                     IF r.out = Scored
                     THEN [call EXCEPT !.iter = r.iter]
                     ELSE [call EXCEPT !.pc = "recognized",
                                       !.recognition = r.out,
                                       !.iter = NoIter]]
    /\ lastOp' = Op("stt_recognize_next", FALSE, Absent)
    /\ UNCHANGED engineVars
    /\ UNCHANGED <<slot, now, convData, convOptions, agentAvail, convCall, engineAvail, host,
                   mainPc, mainCalls, reloads>>

\* async_process_audio_stream once async_recognize has returned: for a
\* result an event is fired and the result is stored as last_result with the
\* current loop time; the result of the wrapped entity is returned.
stt_recognized(entity_id) ==
    /\ stt[entity_id].pc = "recognized"
    /\ LET call == stt[entity_id]
           last_result == publish(slot, call.recognition, now)
       IN  /\ slot' = last_result
           /\ lastOp' = SttOp(entity_id, call.result, call, TRUE,
                              fire(entity_id, call.recognition),
                              slot # NoEntry /\ last_result # slot)
    /\ stt' = [stt EXCEPT ![entity_id] = NoCall]
    /\ UNCHANGED engineVars
    /\ UNCHANGED <<now, convData, convOptions, agentAvail, convCall, engineAvail, host,
                   mainPc, mainCalls, reloads>>

\* ------------------------------------------------------ conversation bridge

\* context.user_id of a request that names no user.
NoUser == "None"

\* A ConversationInput with its Context, every field set.
Request(user_id) ==
    [kind |-> "request", text |-> "turn on the light",
     context |-> [user_id |-> user_id, parent_id |-> "p1", id |-> "ctx1"],
     conversation_id |-> "conv1", device_id |-> "dev1",
     satellite_id |-> "sat1", language |-> "en", agent_id |-> "agent1",
     extra_system_prompt |-> "be brief"]

\* A ConversationInput whose optional fields are None.
BareRequest(user_id) ==
    [kind |-> "request", text |-> "hello",
     context |-> [user_id |-> user_id, parent_id |-> "None", id |-> "ctx2"],
     conversation_id |-> "None", device_id |-> "None",
     satellite_id |-> "None", language |-> "de", agent_id |-> "agent2",
     extra_system_prompt |-> "None"]

Requests ==
    { Request(u) : u \in {NoUser} \cup Owners }
        \cup { BareRequest(u) : u \in {NoUser} \cup Owners }

\* The values min_confidence is configured with, in tenths.
MinConfidences == {DEFAULT_MIN_CONFIDENCE, 7}

\* conversation.py: the threshold async_process falls back to, 0.7
FallbackMinConfidence == 7

\* conversation.py: the window async_process accepts a result in, 5.0 seconds
FreshnessWindow == 5

\* options.get(CONF_MIN_CONFIDENCE, data.get(CONF_MIN_CONFIDENCE, 0.7))
min_confidence_of(options, data) ==
    IF options # <<>> THEN options[1]
    ELSE IF data # <<>> THEN data[1]
    ELSE FallbackMinConfidence

\* The property min_confidence of the conversation entity: the data of its
\* entry, else DEFAULT_MIN_CONFIDENCE.
min_confidence_property(data) ==
    IF data # <<>> THEN data[1] ELSE DEFAULT_MIN_CONFIDENCE

\* Variant: a confidence equal to the threshold is rejected.
confidence_gate_strict(confidence, min_confidence, recognized_user_id) ==
    confidence > min_confidence /\ recognized_user_id # ""

\* confidence >= min_confidence and recognized_user_id
confidence_gate(confidence, min_confidence, recognized_user_id) ==
    confidence >= min_confidence /\ recognized_user_id # ""

\* Variant: a result exactly as old as the window is accepted.
fresh_gate_inclusive(age) == age <= FreshnessWindow

\* age < 5.0
fresh_gate(age) == age < FreshnessWindow

\* Variant: a request that names no user is left alone.
should_enrich_named_only(user_id, recognized_user_id) ==
    user_id # NoUser /\ user_id # recognized_user_id

\* Variant: the request is rebuilt whoever its acting user is.
should_enrich_always(user_id, recognized_user_id) == TRUE

\* should_enrich
should_enrich(user_id, recognized_user_id) ==
    user_id = NoUser \/ user_id # recognized_user_id

\* Whether async_process builds a new Context and ConversationInput.
substitutes(user_input, speaker_data, min_confidence, time) ==
    /\ speaker_data # NoEntry
    /\ confidence_gate(speaker_data.confidence, min_confidence, speaker_data.user_id)
    /\ fresh_gate(time - speaker_data.timestamp)
    /\ should_enrich(user_input.context.user_id, speaker_data.user_id)

\* Variant: the new ConversationInput is built without the device.
enriched_input_no_device(user_input, recognized_user_id) ==
    [kind |-> "request", text |-> user_input.text,
     context |-> [user_id |-> recognized_user_id,
                  parent_id |-> user_input.context.parent_id,
                  id |-> user_input.context.id],
     conversation_id |-> user_input.conversation_id,
     device_id |-> "None",
     satellite_id |-> user_input.satellite_id,
     language |-> user_input.language,
     agent_id |-> user_input.agent_id,
     extra_system_prompt |-> user_input.extra_system_prompt]

\* The Context and the ConversationInput async_process builds for
\* recognized_user_id.
enriched_input(user_input, recognized_user_id) ==
    [kind |-> "request", text |-> user_input.text,
     context |-> [user_id |-> recognized_user_id,
                  parent_id |-> user_input.context.parent_id,
                  id |-> user_input.context.id],
     conversation_id |-> user_input.conversation_id,
     device_id |-> user_input.device_id,
     satellite_id |-> user_input.satellite_id,
     language |-> user_input.language,
     agent_id |-> user_input.agent_id,
     extra_system_prompt |-> user_input.extra_system_prompt]

\* The request async_process forwards to the wrapped agent.
enrich(user_input, speaker_data, min_confidence, time) ==
    IF substitutes(user_input, speaker_data, min_confidence, time)
    THEN enriched_input(user_input, speaker_data.user_id)
    ELSE user_input

\* conversation.async_get_agent(hass, self._conversation_entity_id)
source_agent(avail) == IF avail THEN "agent" ELSE "None"

\* Variant: the agent is taken as found.
source_agent_is_none_never(agent) == FALSE

\* source_agent is None
source_agent_is_none(agent) == agent = "None"

\* The error result of async_process when the wrapped agent is not found.
AgentNotFound(user_input) ==
    [kind |-> "error", code |-> "failed_to_handle",
     message |-> "Source conversation entity not found",
     language |-> user_input.language, conversation_id |-> "None"]

\* The result the wrapped agent gives for a request.
AgentResult(request) ==
    [kind |-> "conversation_result", text |-> request.text,
     user_id |-> request.context.user_id,
     conversation_id |-> request.conversation_id]

\* Variant: the result of the wrapped agent is returned without its
\* conversation id.
returned_anonymous(result) == [result EXCEPT !.conversation_id = "anonymous"]

\* return await source_agent.async_process(user_input)
returned(result) == result

\* Variant: the entry is taken out of the slot when it is read.
last_result_pop(data) == [speaker_data |-> data, data |-> NoEntry]

\* hass.data.get("speaker_recognition", {}).get("last_result"): the entry
\* read, and the slot after the read.
last_result_get(data) == [speaker_data |-> data, data |-> data]

\* No async_process call awaits the wrapped agent.
NoProcess == [pc |-> "idle", request |-> NoRequest, forwarded |-> NoRequest,
              built |-> FALSE]

\* SpeakerRecognitionConversationEntity.async_process, lines 188-267 up to the
\* await of the wrapped agent: without the agent the call returns an error
\* result at once; else it decides on the entry the slot holds and on the
\* loop time by then, forwards the request to the agent and awaits its
\* answer.
async_process(user_input) ==
    /\ convCall = NoProcess
    /\ IF source_agent_is_none(source_agent(agentAvail))
       THEN /\ lastOp' = ProcessOp("process_done", AgentNotFound(user_input),
                                   user_input, NoRequest, FALSE)
            /\ slot' = slot
            /\ UNCHANGED convCall
       ELSE LET read == last_result_get(slot)
                min_confidence == min_confidence_of(convOptions, convData)
                forwarded == enrich(user_input, read.speaker_data, min_confidence, now)
                built == substitutes(user_input, read.speaker_data, min_confidence, now)
            IN  /\ convCall' = [pc |-> "awaiting", request |-> user_input,
                                forwarded |-> forwarded, built |-> built]
                /\ lastOp' = ProcessOp("process_forward", Absent,
                                       user_input, forwarded, built)
                /\ slot' = read.data
    /\ UNCHANGED engineVars
    /\ UNCHANGED <<now, convData, convOptions, agentAvail, stt, engineAvail, host,
                   mainPc, mainCalls, reloads>>

\* async_process, line 267: the wrapped agent answers the request it was
\* forwarded, and the call returns that answer.  The event loop has run other
\* callbacks since the request was forwarded.
async_process_return ==
    /\ convCall.pc = "awaiting"
    /\ lastOp' = ProcessOp("process_done", returned(AgentResult(convCall.forwarded)),
                           convCall.request, convCall.forwarded, convCall.built)
    /\ convCall' = NoProcess
    /\ UNCHANGED engineVars
    /\ UNCHANGED <<slot, now, convData, convOptions, agentAvail, stt, engineAvail, host,
                   mainPc, mainCalls, reloads>>

\* The loop clock advances.
tick ==
    /\ now < MaxTime
    /\ now' = now + 1
    /\ lastOp' = Op("tick", FALSE, Absent)
    /\ UNCHANGED engineVars
    /\ UNCHANGED <<slot, convData, convOptions, agentAvail, convCall, stt, engineAvail, host,
                   mainPc, mainCalls, reloads>>

\* ------------------------------------------- the bridges as host entities

\* The platforms of the two bridges.
Platforms == {"stt", "conversation"}

STATE_UNAVAILABLE == "unavailable"

\* hass.states.get(entity_id) of the wrapped entity: None, or its state.
NoState == "None"

WrappedStates == {NoState, STATE_UNAVAILABLE, "idle"}

\* The capabilities of an entity: supported_languages, and the five audio
\* attributes (formats, codecs, bit rates, sample rates, channels) taken
\* together; an agent has languages only.
Capabilities(platform) ==
    IF platform = "stt"
    THEN { [languages |-> <<"en">>, audio |-> "pcm16"],
           [languages |-> <<"en", "de">>, audio |-> "pcm16+opus"] }
    ELSE { [languages |-> <<"en">>, audio |-> "None"],
           [languages |-> <<"en", "de">>, audio |-> "None"] }

\* The cached attributes as __init__ leaves them.
NoCapabilities == [languages |-> "None", audio |-> "None"]

\* A platform before its bridge is set up: the entity as Entity and __init__
\* make it (available, nothing cached), not added and not listening; the
\* wrapped entity has no state and no entity object.
NoBridge ==
    [setup |-> "none", listening |-> FALSE, available |-> TRUE,
     cached |-> NoCapabilities,
     state |-> NoState, source |-> FALSE, caps |-> NoCapabilities]

\* What a step of the host reports in lastOp: the platform, whether the
\* wrapped entity is registered, how the set-up ended and whether a listener
\* handled the change.
HostOp(name, platform, registered, outcome, handled) ==
    [op |-> name, backend |-> FALSE, result |-> Absent, audio |-> NoAudio,
     samples |-> <<>>, enrolled |-> <<>>,
     request |-> NoRequest, forwarded |-> NoRequest,
     platform |-> platform, registered |-> registered,
     outcome |-> outcome, handled |-> handled]

\* er.async_validate_entity_id: a string of the form of an entity id is
\* returned as it is; any other string is looked up as a registry id and is
\* Invalid when the registry does not hold it.
async_validate_entity_id(reference, registered) ==
    IF reference = "entity_id" THEN "entity_id"
    ELSE IF registered THEN "entity_id"
    ELSE "Invalid"

\* async_setup_entry of a platform: the entity is added unless the reference
\* is Invalid (the call raises) or there is no main entry (the call returns).
async_setup_entry(reference, registered, main_entry) ==
    IF async_validate_entity_id(reference, registered) = "Invalid" THEN "raised"
    ELSE IF ~main_entry THEN "returned"
    ELSE "added"

\* async_setup_stt_entry and async_setup_conversation_entry: False without a
\* main entry, else the set-up of the platform, which the host runs while the
\* call awaits it and which looks for the main entry again (`main_entry_then`).
async_setup_bridge_entry(reference, registered, main_entry, main_entry_then) ==
    IF ~main_entry THEN "failed"
    ELSE async_setup_entry(reference, registered, main_entry_then)

\* _async_update_properties: the attributes of the wrapped entity are copied
\* when the entity object is found, six of them by the speech bridge and the
\* languages by the conversation bridge.
async_update_properties(platform, cached, source, caps) ==
    IF ~source THEN cached
    ELSE IF platform = "stt" THEN caps
    ELSE [cached EXCEPT !.languages = caps.languages]

\* _async_state_changed_listener on the bridge `bridge`.
async_state_changed_listener(platform, bridge) ==
    IF bridge.state = NoState \/ bridge.state = STATE_UNAVAILABLE
    THEN [bridge EXCEPT !.available = FALSE]
    ELSE [bridge EXCEPT
            !.available = TRUE,
            !.cached = IF bridge.cached.languages = "None"
                       THEN async_update_properties(platform, bridge.cached,
                                                    bridge.source, bridge.caps)
                       ELSE bridge.cached]

\* The host sets up the entry of a bridge.
setup_entry(platform, reference, registered, main_entry, main_entry_then) ==
    /\ host[platform].setup = "none"
    /\ LET outcome == async_setup_bridge_entry(reference, registered, main_entry,
                                               main_entry_then)
       IN  /\ host' = [host EXCEPT ![platform].setup = outcome]
           /\ lastOp' = HostOp("setup_done", platform, registered, outcome, FALSE)
    /\ UNCHANGED engineVars
    /\ UNCHANGED <<slot, now, convData, convOptions, agentAvail, convCall, stt, engineAvail,
                   mainPc, mainCalls, reloads>>

\* async_added_to_hass: the listener is subscribed to the state changes of
\* the wrapped entity and called once.
async_added_to_hass(platform) ==
    /\ host[platform].setup = "added"
    /\ ~host[platform].listening
    /\ host' = [host EXCEPT ![platform] =
                  async_state_changed_listener(platform,
                      [host[platform] EXCEPT !.listening = TRUE])]
    /\ lastOp' = HostOp("added_to_hass", platform, FALSE, "added", TRUE)
    /\ UNCHANGED engineVars
    /\ UNCHANGED <<slot, now, convData, convOptions, agentAvail, convCall, stt, engineAvail,
                   mainPc, mainCalls, reloads>>

\* The state of the wrapped entity changes, with the entity object and the
\* capabilities it has by then; a bridge that listens handles the change.
state_changed(platform, state, source, caps) ==
    /\ <<state, source, caps>> #
            <<host[platform].state, host[platform].source, host[platform].caps>>
    /\ LET changed == [host[platform] EXCEPT !.state = state, !.source = source,
                                             !.caps = caps]
       IN  host' = [host EXCEPT ![platform] =
                      IF changed.listening
                      THEN async_state_changed_listener(platform, changed)
                      ELSE changed]
    /\ lastOp' = HostOp("state_changed", platform, FALSE, host[platform].setup,
                        host[platform].listening)
    /\ UNCHANGED engineVars
    /\ UNCHANGED <<slot, now, convData, convOptions, agentAvail, convCall, stt, engineAvail,
                   mainPc, mainCalls, reloads>>

ENTRY_TYPE_MAIN == "main"

\* async_unload_entry.  On a bridge entry the platform is unloaded: the entity
\* is removed and its listener unsubscribed.  On the main entry it returns
\* True at once, and the host, which unloads the entry, drops its
\* runtime_data and its update listener.
async_unload_entry(entry_type) ==
    IF entry_type = ENTRY_TYPE_MAIN
    THEN /\ mainPc = "loaded"
         /\ mainPc' = "none"
         /\ engineAvail' = FALSE
         /\ lastOp' = HostOp("unload_done", entry_type, FALSE, "none", FALSE)
         /\ UNCHANGED engineVars
         /\ UNCHANGED <<slot, now, convData, convOptions, agentAvail, convCall, stt, host,
                        mainCalls, reloads>>
    ELSE /\ host[entry_type].setup # "none"
         /\ host' = [host EXCEPT ![entry_type] =
                       [NoBridge EXCEPT !.state = host[entry_type].state,
                                        !.source = host[entry_type].source,
                                        !.caps = host[entry_type].caps]]
         /\ lastOp' = HostOp("unload_done", entry_type, FALSE, "none", FALSE)
         /\ UNCHANGED engineVars
         /\ UNCHANGED <<slot, now, convData, convOptions, agentAvail, convCall, stt, engineAvail,
                        mainPc, mainCalls, reloads>>

\* ------------------------------------------------------------ the main entry

\* SpeakerRecognition(...): __init__ takes hass and voice_samples, and a call
\* with another number of arguments raises TypeError.
SpeakerRecognition(arguments) ==
    IF Len(arguments) = 2 THEN "engine" ELSE "TypeError"

\* The arguments async_setup_main_entry constructs the engine with.
MainEntryArguments == <<"hass", "voice_samples", "backend_url">>

\* The sample lists the options of the main entry hold.
MainLists ==
    { <<>>,
      << [user |-> "bob", media_id |-> [local |-> TRUE, stem |-> "b", ext |-> "wav"]] >> }

\* What a step of the main entry reports in lastOp: how it ended.
MainOp(name, outcome) ==
    [op |-> name, backend |-> FALSE, result |-> Absent, audio |-> NoAudio,
     samples |-> <<>>, enrolled |-> <<>>,
     request |-> NoRequest, forwarded |-> NoRequest, outcome |-> outcome]

\* The body of async_setup_main_entry on an entry whose options hold
\* `samples`: the engine is constructed and, with samples, handed to train;
\* it becomes runtime_data when train has returned.  When the construction
\* raises, the set-up fails and the entry holds no runtime_data: the engine
\* the entry held is left with the list `list` and the flag `flag`.  `pcs` and
\* `calls` are the train calls in flight and their callers.
setup_main(name, samples, list, flag, pcs, calls) ==
    IF SpeakerRecognition(MainEntryArguments) = "TypeError"
    THEN /\ mainPc' = "failed"
         /\ engineAvail' = FALSE
         /\ voice_samples' = list
         /\ trained' = flag
         /\ trainPc' = pcs
         /\ mainCalls' = calls
         /\ lastOp' = MainOp(name, "raised")
         /\ UNCHANGED <<encoder, refs, files, cache, trainList, trainPrev, trainIdx, trainEmb,
                        enrolled, recPc, recAudio, recIter, recRet, edits, updates>>
         /\ UNCHANGED <<slot, now, convData, convOptions, agentAvail, convCall, stt, host>>
    ELSE /\ voice_samples' = samples
         /\ trained' = FALSE
         /\ encoder' = FALSE
         /\ refs' = <<>>
         /\ IF samples # <<>>
            THEN /\ \E j \in Jobs : pcs[j] = "idle"
                 /\ trainPc' = [pcs EXCEPT ![free_job(pcs)] = "queued"]
                 /\ mainCalls' = [calls EXCEPT ![free_job(pcs)] = "setup"]
                 /\ mainPc' = "setting_up"
                 /\ engineAvail' = FALSE
                 /\ lastOp' = Op("train_call", FALSE, Absent)
            ELSE /\ trainPc' = pcs
                 /\ mainCalls' = calls
                 /\ mainPc' = "loaded"
                 /\ engineAvail' = TRUE
                 /\ lastOp' = MainOp(name, "loaded")
         /\ UNCHANGED <<files, cache, trainList, trainPrev, trainIdx, trainEmb, enrolled,
                        recPc, recAudio, recIter, recRet, edits, updates>>
         /\ UNCHANGED <<slot, now, convData, convOptions, agentAvail, convCall, stt, host>>

\* The host sets up the main entry.
async_setup_main_entry(samples) ==
    /\ mainPc \in {"none", "failed"}
    /\ setup_main("main_setup_done", samples, voice_samples, trained, trainPc,
                  mainCalls)
    /\ UNCHANGED reloads

\* async_update_main_listener, which the host calls on an update of the
\* options of the entry, up to its first await: update_voice_samples on the
\* engine of the entry, then, with samples, the hand-over of train to the
\* executor (line 107), and without samples the call of the reload of the
\* host (line 109).  On an entry that holds no runtime_data the look-up of the
\* engine raises AttributeError.  MaxListeners caps the calls of the listener
\* that are in flight: those that await their train call and those that await
\* the reload.
async_update_main_listener(samples) ==
    IF ~engineAvail
    THEN /\ lastOp' = MainOp("main_update_raised", "raised")
         /\ UNCHANGED engineVars
         /\ UNCHANGED bridgeVars
    ELSE /\ voice_samples' = samples
         /\ trained' = FALSE
         /\ reloads + Cardinality({ j \in Jobs : mainCalls[j] = "listener" }) < MaxListeners
         /\ IF samples # <<>>
            THEN /\ \E j \in Jobs : trainPc[j] = "idle"
                 /\ trainPc' = [trainPc EXCEPT ![free_job(trainPc)] = "queued"]
                 /\ mainCalls' = [mainCalls EXCEPT ![free_job(trainPc)] = "listener"]
                 /\ UNCHANGED reloads
            ELSE /\ reloads' = reloads + 1
                 /\ UNCHANGED <<trainPc, mainCalls>>
         /\ lastOp' = Op("main_update", FALSE, Absent)
         /\ UNCHANGED <<encoder, refs, files, cache, trainList, trainPrev, trainIdx,
                        trainEmb, enrolled, recPc, recAudio, recIter, recRet, edits, updates>>
         /\ UNCHANGED <<slot, now, convData, convOptions, agentAvail, convCall, stt,
                        engineAvail, host, mainPc>>

\* The reload of the host that a call of the listener awaits at line 109: the
\* entry is unloaded (its runtime_data is dropped) and set up again on the
\* samples of its options, which are those the listener gave the engine.
async_reload ==
    /\ reloads > 0
    /\ reloads' = reloads - 1
    /\ setup_main("main_update_done", voice_samples, voice_samples, trained, trainPc,
                  mainCalls)

\* The continuation of a call of the main entry once its train call has
\* returned: the set-up assigns the engine as runtime_data (lines 54-57); the
\* listener goes on to line 109, where it calls the reload of the host and
\* awaits it, the entry being as it is until the host runs the reload.
main_train_returned(j) ==
    /\ trainPc[j] = "returned"
    /\ mainCalls[j] # "none"
    /\ train_release(j)
    /\ mainCalls' = [mainCalls EXCEPT ![j] = "none"]
    /\ IF mainCalls[j] = "setup"
       THEN /\ mainPc' = "loaded"
            /\ engineAvail' = TRUE
            /\ lastOp' = MainOp("main_setup_done", "loaded")
            /\ UNCHANGED reloads
       ELSE /\ reloads' = reloads + 1
            /\ lastOp' = Op("main_train_returned", FALSE, Absent)
            /\ UNCHANGED <<mainPc, engineAvail>>
    /\ UNCHANGED <<voice_samples, trained, encoder, refs, files, cache,
                   trainPrev, trainIdx, trainEmb,
                   recPc, recAudio, recIter, recRet, edits, updates>>
    /\ UNCHANGED <<slot, now, convData, convOptions, agentAvail, convCall, stt, host>>

\* ------------------------------------------------------------ specification

\* The media directory at start-up: a.wav and b.wav hold the voices of alice
\* and bob, and a.mp3 is a file the decoder rejects.
InitFiles ==
    { f \in [Paths -> FileStates] :
        /\ f[<<"a", "wav">>] = [exists |-> TRUE, wave |-> <<1, 0>>]
        /\ f[<<"b", "wav">>] = [exists |-> TRUE, wave |-> <<0, 1>>]
        /\ f[<<"a", "mp3">>] = [exists |-> TRUE, wave |-> <<>>] }

\* The sample lists update_voice_samples and the constructor are given in
\* Spec: no sample, or one.
ShortLists == {<<>>} \cup { <<s>> : s \in Samples }

\* The two users of the end-to-end scenario, each with one sample.
BridgeSamples ==
    << [user |-> "alice", media_id |-> [local |-> TRUE, stem |-> "a", ext |-> "wav"]],
       [user |-> "bob",   media_id |-> [local |-> TRUE, stem |-> "b", ext |-> "wav"]] >>

\* No call in flight, the media directory and the slot as at start-up.
Idle ==
    /\ files \in InitFiles
    /\ trainPc = [j \in Jobs |-> "idle"]
    /\ trainList = [j \in Jobs |-> <<>>]
    /\ trainPrev = [j \in Jobs |-> <<>>]
    /\ trainIdx = [j \in Jobs |-> 1]
    /\ trainEmb = [j \in Jobs |-> <<>>]
    /\ enrolled = [j \in Jobs |-> <<>>]
    /\ mainCalls = [j \in Jobs |-> "none"]
    /\ reloads = 0
    /\ recPc = "idle"
    /\ recAudio = NoAudio
    /\ recIter = NoIter
    /\ recRet = NoReturn
    /\ convCall = NoProcess
    /\ edits = 0
    /\ updates = 0
    /\ slot = NoEntry
    /\ now = 0
    /\ stt = [entity_id \in Bridges |-> NoCall]
    /\ host = [platform \in Platforms |-> NoBridge]
    /\ lastOp = Op("init", FALSE, Absent)

\* SpeakerRecognition.__init__ on the list `lists` offers.
InitWith(lists) ==
    /\ voice_samples \in lists
    /\ trained = FALSE
    /\ encoder = FALSE
    /\ refs = <<>>
    /\ cache = [s \in Stems |-> <<>>]
    /\ Idle

\* The conversation entry as the config flow creates it, with the wrapped
\* agent registered.
DefaultBridge ==
    /\ convData = <<DEFAULT_MIN_CONFIDENCE>>
    /\ convOptions = <<>>
    /\ agentAvail = TRUE

\* The main entry is loaded: it holds the engine as runtime_data.
Loaded == engineAvail = TRUE /\ mainPc = "loaded"

Init == InitWith(ShortLists) /\ DefaultBridge /\ Loaded

\* The worker threads of the executor run the train calls handed to them.
TrainJobs ==
    \/ \E j \in Jobs : train_sync_begin(j)
    \/ \E j \in Jobs : train_sync_loop(j)
    \/ \E j \in Jobs : train_sync_sample(j)
    \/ \E j \in Jobs : train_sync_load(j)
    \/ \E j \in Jobs : train_sync_exists(j)
    \/ \E j \in Jobs : train_sync_embed(j)
    \/ \E j \in Jobs : train_sync_save(j)
    \/ \E j \in Jobs : train_sync_write(j)
    \/ \E j \in Jobs : train_sync_assign(j)
    \/ \E j \in Jobs : train_sync_test(j)
    \/ \E j \in Jobs : train_sync_end(j)

TrainNext ==
    \/ async_train
    \/ TrainJobs
    \/ \E j \in Jobs : async_train_return(j)

\* The recognize calls on the audio buffers `audios`, with their worker
\* thread.
Recognize(audios) ==
    \/ \E audio_data \in audios : async_recognize(audio_data)
    \/ recognize_sync_run
    \/ recognize_sync_next
    \/ async_recognize_return

\* Train calls and recognize calls on every audio buffer.
RecognizeNext == TrainNext \/ Recognize(Audios)

\* Train calls, recognize calls on no bytes or on a PCM16 buffer the encoder
\* embeds, and update_voice_samples with no sample, the sample of alice or
\* that of bob.
Next ==
    \/ TrainNext
    \/ Recognize({NoAudio, [bytes |-> "pcm", wave |-> <<9, 1>>]})
    \/ \E samples \in {<<>>} \cup { <<BridgeSamples[i]>> : i \in 1..2 } :
            update_voice_samples(samples)

\* The engine over its life: construction, reconfiguration, training and
\* recognition.
Spec == Init /\ [][Next]_vars

FilesNext ==
    \/ TrainNext
    \/ \E path \in Paths, st \in FileStates : file_edit(path, st)

\* The engine trained again and again on a media directory that changes.
SpecFiles == Init /\ [][FilesNext]_vars

\* One engine constructed on a sample list and trained, again and again: on
\* every list of up to two samples, and on the samples of alice and bob
\* followed by a third.
InitTrain ==
    /\ InitWith({ l \in SampleLists : Len(l) <= 2 }
                    \cup { BridgeSamples \o <<s>> : s \in Samples })
    /\ DefaultBridge
    /\ Loaded

SpecTrain == InitTrain /\ [][TrainNext]_vars

\* One engine constructed on a sample list, trained and used: on no sample,
\* on one sample, or on the samples of alice and bob.
InitRecognize ==
    InitWith(ShortLists \cup {BridgeSamples}) /\ DefaultBridge /\ Loaded

SpecRecognize == InitRecognize /\ [][RecognizeNext]_vars

\* The engine trained on the two samples.
TrainedMapping ==
    /\ voice_samples = BridgeSamples
    /\ trained = TRUE
    /\ encoder = TRUE
    /\ refs = << [key |-> "alice", value |-> <<1, 0>>],
                 [key |-> "bob", value |-> <<0, 1>>] >>

\* The engine as train leaves it on the two samples.
TrainedEngine ==
    /\ TrainedMapping
    /\ cache = [s \in Stems |-> IF s = "a" THEN <<1, 0>> ELSE <<0, 1>>]

\* The engine trained on the two samples, and a conversation entry with
\* min_confidence in its data, in its options, in both or in neither.
InitBridge ==
    /\ TrainedEngine
    /\ Idle
    /\ Loaded
    /\ convData \in {<<>>} \cup { <<c>> : c \in MinConfidences }
    /\ convOptions \in {<<>>} \cup { <<c>> : c \in MinConfidences }
    /\ agentAvail \in BOOLEAN

\* The calls of the bridges `bridges`, on the streams `streams`, with a
\* wrapped entity that returns one of `results`.
SttNext(bridges, streams, results) ==
    \/ \E entity_id \in bridges, found \in BOOLEAN, stream \in streams :
            stt_process_audio_stream(entity_id, found, stream)
    \/ \E entity_id \in bridges : stt_buffered_stream(entity_id)
    \/ \E entity_id \in bridges : stt_stream_abort(entity_id)
    \/ \E entity_id \in bridges, result \in results :
            stt_source_return(entity_id, result)
    \/ \E entity_id \in bridges : stt_recognize_sync(entity_id)
    \/ \E entity_id \in bridges : stt_recognize_next(entity_id)
    \/ \E entity_id \in bridges : stt_recognized(entity_id)

\* The transcription that succeeded.
Transcribed == { r \in SpeechResults : r.state = "success" }

\* The streams are of one chunk that is a buffer the encoder embeds: three of
\* the voice of alice, at different distances of her reference embedding.
BridgeNext ==
    \/ SttNext({"stt.hall"},
               { << <<9, 1>> >>, << <<7, 2>> >>, << <<5, 5>> >> }, Transcribed)
    \/ \E user_input \in Requests : async_process(user_input)
    \/ async_process_return
    \/ tick

\* One speech bridge and the conversation bridge around one engine.
SpecBridge == InitBridge /\ [][BridgeNext]_vars

\* One speech bridge on an engine that is trained or not, held by a main
\* entry that is loaded or not.
InitStt ==
    /\ InitWith({BridgeSamples}) \/ (TrainedEngine /\ Idle)
    /\ DefaultBridge
    /\ engineAvail \in BOOLEAN
    /\ mainPc = IF engineAvail THEN "loaded" ELSE "none"

SttStreamNext ==
    \/ SttNext({"stt.hall"}, Streams, SpeechResults)
    \/ tick

SpecStt == InitStt /\ [][SttStreamNext]_vars

\* The event loop runs every step of a call of the bridge that is enabled on
\* it; nothing is assumed of the wrapped entity and of the worker thread.
LoopFairness ==
    \A entity_id \in {"stt.hall"} : WF_vars(stt_recognized(entity_id))

SpecSttLive == SpecStt /\ LoopFairness

\* The requests the conversation bridge is given while the speech bridges
\* publish: one that names no user.
BusRequests == { Request(NoUser) }

\* Two speech bridges on the trained engine publish into the one slot, which
\* the conversation bridge reads.  The streams are of one chunk, one of the
\* voice of alice and one of the voice of bob, recognised with different
\* confidences.
InitBus == TrainedEngine /\ Idle /\ DefaultBridge /\ Loaded

BusNext ==
    \/ SttNext(Bridges, { << <<9, 1>> >>, << <<2, 7>> >> }, Transcribed)
    \/ \E user_input \in BusRequests : async_process(user_input)
    \/ async_process_return
    \/ tick

SpecBus == InitBus /\ [][BusNext]_vars

\* The two bridges as entities of the host: set-up, the changes of the
\* entities they wrap, and unload.
InitHost == TrainedEngine /\ Idle /\ DefaultBridge /\ Loaded

HostNext ==
    \/ \E platform \in Platforms, reference \in {"entity_id", "registry_id"},
          registered \in BOOLEAN, main_entry \in BOOLEAN, main_entry_then \in BOOLEAN :
            setup_entry(platform, reference, registered, main_entry, main_entry_then)
    \/ \E platform \in Platforms : async_added_to_hass(platform)
    \/ \E platform \in Platforms, state \in WrappedStates, source \in BOOLEAN :
         \E caps \in Capabilities(platform) :
            state_changed(platform, state, source, caps)
    \/ \E entry_type \in Platforms \cup {ENTRY_TYPE_MAIN} :
            async_unload_entry(entry_type)

SpecHost == InitHost /\ [][HostNext]_vars

\* The main entry over its life, with one speech bridge and the conversation
\* bridge: the entry is not set up, or holds the engine trained on the two
\* samples, and the cache artifact of b.wav has been removed since; the host
\* sets the entry up, its options are updated, and the bridges are called in
\* between.
InitMain ==
    /\ TrainedMapping
    /\ cache = [s \in Stems |-> IF s = "a" THEN <<1, 0>> ELSE <<>>]
    /\ Idle
    /\ DefaultBridge
    /\ engineAvail \in BOOLEAN
    /\ mainPc = IF engineAvail THEN "loaded" ELSE "none"

\* The steps of the main entry, of the train calls and of the bridges; the
\* speech bridge is given one stream, one chunk of the voice of alice.
MainNext ==
    \/ \E samples \in MainLists : async_setup_main_entry(samples)
    \/ \E samples \in MainLists : async_update_main_listener(samples)
    \/ \E j \in Jobs : main_train_returned(j)
    \/ async_reload
    \/ async_unload_entry(ENTRY_TYPE_MAIN)
    \/ TrainJobs
    \/ SttNext({"stt.hall"}, { << <<9, 1>> >> }, Transcribed)
    \/ \E user_input \in BusRequests : async_process(user_input)
    \/ async_process_return

SpecMain == InitMain /\ [][MainNext]_vars

\* ===================================================================== C1-C8
\* Properties of the voice identity engine.

IsRecognizeStep ==
    lastOp'.op \in {"recognize_call", "recognize_embed", "recognize_score",
                    "recognize_end", "recognize_done"}

\* The train call whose loop takes the step, and the sample of its iteration.
Stepping == CHOOSE j \in Jobs : trainPc'[j] # trainPc[j] \/ trainIdx'[j] # trainIdx[j]

SteppingSample == trainList[Stepping][trainIdx[Stepping]]

\* C1: while the engine is untrained (freshly constructed, or after
\* update_voice_samples) every recognize call returns None at once, without
\* invoking the encoder; only the end of a train call that leaves at least
\* one reference embedding makes the engine trained; and
\* update_voice_samples leaves the engine untrained, keeps the mapping and the
\* cache, starts no train call and does not invoke the encoder.
C1_UntrainedFastPath ==
    [][ /\ (~trained /\ recPc = "idle" /\ IsRecognizeStep)
            => /\ lastOp'.op = "recognize_done"
               /\ lastOp'.result = Absent
               /\ ~lastOp'.backend
               /\ recPc' = "idle"
        /\ (~trained /\ trained')
            => (lastOp'.op = "train_end" /\ refs' # <<>>)
        /\ (lastOp'.op = "update")
            => /\ ~trained'
               /\ refs' = refs /\ cache' = cache /\ encoder' = encoder
               /\ trainPc' = trainPc
               /\ ~lastOp'.backend
      ]_vars

\* The mapping the train call that just completed produced: the call returns
\* before it touches the mapping when no sample is configured.
ProducedMapping == IF lastOp.samples = <<>> THEN <<>> ELSE refs

\* C2: when a train call has completed, the engine is trained if and only if
\* the mapping the call produced holds at least one reference embedding; a
\* call over an empty list, or one that skipped every sample, leaves the
\* engine untrained.
C2_TrainedIffEnrolled ==
    lastOp.op = "train_done"
        => /\ trained <=> (ProducedMapping # <<>>)
           /\ lastOp.enrolled = <<>> => ~trained
           /\ lastOp.enrolled # <<>> => trained

\* A sample whose locator format is recognised and whose audio file can be
\* read and embedded.
Readable(sample) ==
    /\ sample.media_id.local
    /\ files[FullPath(sample.media_id)].exists
    /\ files[FullPath(sample.media_id)].wave # <<>>

Range(seq) == { seq[i] : i \in 1..Len(seq) }

\* C3: a completed train call has enrolled exactly the samples that are
\* readable; in particular three samples of distinct owners of which exactly
\* one is not readable leave a trained engine with exactly two reference
\* embeddings.
C3_PartialEnrollment ==
    lastOp.op = "train_done"
        => LET samples == lastOp.samples
               good == { i \in 1..Len(samples) : Readable(samples[i]) }
           IN  /\ Range(lastOp.enrolled) = good
               /\ ( /\ Len(samples) = 3
                    /\ Cardinality({ samples[i].user : i \in 1..3 }) = 3
                    /\ Cardinality(good) = 2 )
                    => (trained /\ Len(refs) = 2)

\* C4: when a train call has completed, the owners that hold a reference
\* embedding are exactly the owners of the samples of the current list that
\* the call resolved; none when the current list is empty.
C4_MappingReplaced ==
    lastOp.op = "train_done"
        => /\ lastOp.samples = voice_samples
           /\ Keys(refs) = { voice_samples[i].user : i \in Range(lastOp.enrolled) }

\* An artifact that holds a vector.
Written(artifact) == artifact # <<>> /\ artifact # Truncated

\* C5: the loop of train invokes the encoder for a sample only when the
\* sample has no cache artifact, and then stores the vector it computed; a
\* sample that has a cache artifact is enrolled with the vector of the
\* artifact; and no step of train nor a change of the audio file deletes or
\* rewrites an artifact that holds a vector.
C5_CacheReuse ==
    [][ /\ \A s \in Stems : Written(cache[s]) => cache'[s] = cache[s]
        /\ (lastOp'.op = "train_embed")
            => ~embedding_exists(SteppingSample, cache)
        /\ (lastOp'.op = "train_save")
            => ~embedding_exists(SteppingSample, cache)
        /\ (lastOp'.op = "train_write")
            => np_load(SteppingSample, cache') = trainEmb[Stepping]
        /\ (lastOp'.op = "train_assign"
                /\ Written(cache[embedding_path_of(SteppingSample)]))
            => Get(refs', SteppingSample.user) = np_load(SteppingSample, cache)
        /\ (lastOp'.op \notin {"train_save", "train_write"}) => cache' = cache
      ]_vars

\* C6: on a trained engine, a recognize call on audio that the encoder can
\* embed returns a result; the result holds exactly one score per owner of
\* the mapping, the dot product of that owner's reference embedding with the
\* embedding of the audio; its user_id is an owner of the mapping, its
\* confidence is that owner's score, and no owner has a greater score.
C6_BestMatch ==
    (lastOp.op = "recognize_done" /\ trained /\ lastOp.audio.wave # <<>>)
        => /\ lastOp.result.kind = "result"
           /\ LET r == lastOp.result
              IN  /\ Len(r.all_scores) = Len(refs)
                  /\ Keys(r.all_scores) = Keys(refs)
                  /\ \A i \in 1..Len(refs) :
                        Get(r.all_scores, refs[i].key)
                            = Dot(refs[i].value, lastOp.audio.wave)
                  /\ r.user_id \in Keys(r.all_scores)
                  /\ r.confidence = Get(r.all_scores, r.user_id)
                  /\ \A i \in 1..Len(r.all_scores) :
                        r.all_scores[i].value <= r.confidence

\* The index in `samples` of the first sample of owner `user` among the
\* enrolled ones.
FirstEnrolled(samples, idxs, user) ==
    CHOOSE k \in Range(idxs) :
        /\ samples[k].user = user
        /\ \A m \in Range(idxs) : samples[m].user = user => k <= m

\* C7: among the owners that share the maximum score, recognize returns the
\* one that comes first in the mapping; and the mapping a train call leaves
\* lists the owners in the order in which their first enrolled samples come
\* in the sample list.
C7_TieBreak ==
    /\ (lastOp.op = "recognize_done" /\ lastOp.result.kind = "result")
        => LET r == lastOp.result
               k == KeyIndex(r.all_scores, r.user_id)
           IN  /\ r.all_scores[k].value = r.confidence
               /\ \A j \in 1..(k - 1) : r.all_scores[j].value < r.confidence
               /\ Len(r.all_scores) = Len(refs)
               /\ \A j \in 1..Len(refs) : r.all_scores[j].key = refs[j].key
    /\ (lastOp.op = "train_done" /\ lastOp.samples # <<>>)
        => /\ \A i \in 1..Len(refs) :
                \E k \in Range(lastOp.enrolled) : lastOp.samples[k].user = refs[i].key
           /\ \A i, j \in 1..Len(refs) :
                i < j => FirstEnrolled(lastOp.samples, lastOp.enrolled, refs[i].key)
                           < FirstEnrolled(lastOp.samples, lastOp.enrolled, refs[j].key)

\* C8: a recognize call never raises: it returns None or a result, it returns
\* None for audio that is empty, that is no PCM16 buffer or that the encoder
\* fails on, and it changes neither the trained flag nor the mapping, the
\* sample list or the cache.
C8_RecognizeNeverRaises ==
    [][ IsRecognizeStep
            => /\ lastOp'.result.kind \in {"none", "result"}
               /\ trained' = trained
               /\ refs' = refs
               /\ voice_samples' = voice_samples
               /\ cache' = cache
               /\ (lastOp'.op = "recognize_done" /\ lastOp'.audio.wave = <<>>)
                    => lastOp'.result = Absent
      ]_vars

\* The encoder failed on the audio of a call to a trained engine, and the
\* call returned None.
C8_Witness ==
    /\ lastOp.op = "recognize_done"
    /\ lastOp.audio.bytes = "pcm"
    /\ lastOp.audio.wave = <<>>
    /\ lastOp.backend
    /\ lastOp.result = Absent
    /\ trained
    /\ refs # <<>>

\* ==================================================================== C9-C10
\* Properties of the conversation bridge.

\* The request with the acting user replaced by `user_id`, all else kept.
WithUser(request, user_id) == [request EXCEPT !.context.user_id = user_id]

\* A process call has just decided on the entry the slot holds and forwarded
\* a request to the wrapped agent.
Forwarded == lastOp.op = "process_forward" /\ agentAvail /\ slot # NoEntry

\* The threshold the bridge is configured with: the options of its entry,
\* else the data, else the fallback of async_process.
ConfiguredMinConfidence == min_confidence_of(convOptions, convData)

\* C9: when the entry's confidence passes the threshold and its owner is not
\* the acting user of the request, process forwards the request with the
\* owner as acting user if the entry is less than 5 old, and forwards the
\* request unmodified if it is 5 old or older.
C9_FreshnessGating ==
    ( /\ Forwarded
      /\ slot.confidence >= ConfiguredMinConfidence
      /\ lastOp.request.context.user_id # slot.user_id )
        => /\ now - slot.timestamp < 5
                => /\ lastOp.forwarded = WithUser(lastOp.request, slot.user_id)
                   /\ lastOp.forwarded # lastOp.request
           /\ now - slot.timestamp >= 5
                => lastOp.forwarded = lastOp.request

\* An entry of confidence 0.9 against a threshold of 0.7, exactly 5 old, with
\* another acting user in the request: the request was forwarded unmodified.
C9_Witness ==
    /\ Forwarded
    /\ slot.confidence = 9
    /\ ConfiguredMinConfidence = 7
    /\ lastOp.request.context.user_id = "bob"
    /\ slot.user_id = "alice"
    /\ now - slot.timestamp = 5
    /\ lastOp.forwarded = lastOp.request

\* C10: an entry whose confidence is below the configured threshold is never
\* substituted, whatever its age and the acting user; an entry whose
\* confidence equals the threshold is substituted when it is fresh and its
\* owner is not the acting user.
C10_ConfidenceGating ==
    Forwarded
        => /\ slot.confidence < ConfiguredMinConfidence
                => lastOp.forwarded = lastOp.request
           /\ ( /\ slot.confidence = ConfiguredMinConfidence
                /\ now - slot.timestamp < 5
                /\ lastOp.request.context.user_id # slot.user_id )
                => /\ lastOp.forwarded = WithUser(lastOp.request, slot.user_id)
                   /\ lastOp.forwarded # lastOp.request

\* A fresh entry of confidence 0.5 against a threshold of 0.7, with no acting
\* user in the request: the request was forwarded unmodified.
C10_Witness ==
    /\ Forwarded
    /\ slot.confidence = 5
    /\ ConfiguredMinConfidence = 7
    /\ now - slot.timestamp < 5
    /\ lastOp.request.context.user_id = NoUser
    /\ lastOp.forwarded = lastOp.request

\* =================================================================== C11-C14
\* Properties of the conversation bridge: what process forwards and returns.

\* The entry of the slot passes the configured threshold and is less than 5
\* old.
FreshAndConfident ==
    /\ slot.confidence >= ConfiguredMinConfidence
    /\ now - slot.timestamp < 5

\* C11: when the acting user of the request already is the owner of the
\* entry, process forwards the very request it was given and builds no new
\* request or context, also when the entry is fresh and passes the threshold.
C11_NoSelfSubstitution ==
    (Forwarded /\ lastOp.request.context.user_id = slot.user_id)
        => /\ lastOp.forwarded = lastOp.request
           /\ ~lastOp.built

\* A request of alice met a fresh entry of alice that passes the threshold,
\* and was forwarded as it was.
C11_Witness ==
    /\ Forwarded
    /\ FreshAndConfident
    /\ slot.user_id = "alice"
    /\ lastOp.request.context.user_id = "alice"
    /\ lastOp.forwarded = lastOp.request
    /\ ~lastOp.built

\* C12: when the entry is fresh, passes the threshold and its owner is not
\* the acting user of the request (which may name no user), the request
\* process forwards has the owner as acting user and the text, conversation
\* id, device id, satellite id, language, agent id, extra system prompt,
\* context id and parent id of the request it was given, and no other field.
C12_SubstitutionKeepsFields ==
    ( /\ Forwarded
      /\ FreshAndConfident
      /\ lastOp.request.context.user_id # slot.user_id )
        => LET given == lastOp.request
               sent == lastOp.forwarded
           IN  /\ lastOp.built
               /\ sent.context.user_id = slot.user_id
               /\ sent.context.id = given.context.id
               /\ sent.context.parent_id = given.context.parent_id
               /\ DOMAIN sent.context = DOMAIN given.context
               /\ sent.text = given.text
               /\ sent.conversation_id = given.conversation_id
               /\ sent.device_id = given.device_id
               /\ sent.satellite_id = given.satellite_id
               /\ sent.language = given.language
               /\ sent.agent_id = given.agent_id
               /\ sent.extra_system_prompt = given.extra_system_prompt
               /\ DOMAIN sent = DOMAIN given

\* A request of bob that names a device, a satellite and a conversation met a
\* fresh entry of alice and was forwarded with alice as acting user.
C12_Witness ==
    /\ Forwarded
    /\ FreshAndConfident
    /\ slot.user_id = "alice"
    /\ lastOp.request = Request("bob")
    /\ lastOp.built
    /\ lastOp.forwarded.context.user_id = "alice"
    /\ lastOp.forwarded.device_id = "dev1"

\* C13: when the wrapped agent is found, a process call forwards one request,
\* the one it was given or the one it built from it, and, when the agent has
\* answered, returns the result the wrapped agent gives for that request;
\* with no entry in the slot it forwards the request it was given.
C13_ForwardsOnce ==
    [][ /\ (lastOp'.op = "process_forward")
            => /\ convCall = NoProcess
               /\ convCall'.forwarded = lastOp'.forwarded
               /\ lastOp'.forwarded.kind = "request"
               /\ lastOp'.forwarded
                    \in {lastOp'.request}
                            \cup { WithUser(lastOp'.request, u) : u \in Owners }
               /\ slot = NoEntry
                    => (lastOp'.forwarded = lastOp'.request /\ ~lastOp'.built)
        /\ (lastOp'.op = "process_done" /\ agentAvail)
            => /\ convCall.pc = "awaiting"
               /\ lastOp'.request = convCall.request
               /\ lastOp'.forwarded = convCall.forwarded
               /\ lastOp'.result = AgentResult(convCall.forwarded)
               /\ convCall' = NoProcess
      ]_vars

\* With no entry in the slot, a request that names no user was forwarded as
\* it was and the result of the wrapped agent for it was returned.
C13_Witness ==
    /\ lastOp.op = "process_done"
    /\ agentAvail
    /\ slot = NoEntry
    /\ lastOp.request = BareRequest(NoUser)
    /\ lastOp.forwarded = lastOp.request
    /\ lastOp.result = AgentResult(lastOp.request)

\* C14: when the wrapped agent is not found, a process call returns an error
\* result with a message, forwards nothing, builds nothing and leaves the
\* slot as it is, whatever the slot holds.
C14_AgentNotFound ==
    [][ (lastOp'.op = "process_done" /\ ~agentAvail)
            => /\ lastOp'.result.kind = "error"
               /\ lastOp'.result.code = "failed_to_handle"
               /\ lastOp'.result.message # ""
               /\ lastOp'.forwarded = NoRequest
               /\ ~lastOp'.built
               /\ slot' = slot
      ]_vars

\* Without a wrapped agent, a request of bob met a fresh entry of alice that
\* passes the threshold: an error result was returned and nothing forwarded.
C14_Witness ==
    /\ lastOp.op = "process_done"
    /\ ~agentAvail
    /\ slot # NoEntry
    /\ FreshAndConfident
    /\ slot.user_id = "alice"
    /\ lastOp.request.context.user_id = "bob"
    /\ lastOp.result.kind = "error"
    /\ lastOp.forwarded = NoRequest

\* =================================================================== C15-C18
\* Properties of one call of the speech bridge.

\* A call of the speech bridge has ended after the wrapped entity returned a
\* result.
Transcription == lastOp.op = "stt_done" /\ lastOp.wrapped # NoSpeech

\* C15: a call of the speech bridge in which the wrapped entity returned a
\* result returns that result, whatever the recognition step does.
C15_RecognitionFailureKeepsResult ==
    Transcription => lastOp.result = lastOp.wrapped

\* C16: once the wrapped entity has returned its result, the call of the
\* speech bridge returns, whether or not the worker thread ever completes
\* the recognition.
C16_NoDelay ==
    \A entity_id \in {"stt.hall"} :
        (stt[entity_id].pc = "recognize") ~> (stt[entity_id].pc = "idle")

\* C17: a call of the speech bridge whose recognition returned a result
\* stores that result's user and confidence in the slot, with the loop time,
\* and fires one event with that user and confidence, the scores of the
\* result and the entity id of the bridge; a call whose recognition returned
\* None, or that did not get to recognition, fires no event and leaves the
\* slot as it is.
C17_PublishAndEvent ==
    [][ (lastOp'.op = "stt_done")
            => LET r == lastOp'.recognition
               IN  /\ r.kind = "result"
                        => /\ slot' = Entry(r.user_id, r.confidence, now)
                           /\ Len(lastOp'.events) = 1
                           /\ lastOp'.events[1].type = "speaker_recognition_detected"
                           /\ lastOp'.events[1].user_id = r.user_id
                           /\ lastOp'.events[1].confidence = r.confidence
                           /\ lastOp'.events[1].all_scores = r.all_scores
                           /\ lastOp'.events[1].entity_id = lastOp'.entity_id
                           /\ lastOp'.result = lastOp'.wrapped
                   /\ r.kind # "result"
                        => /\ lastOp'.events = <<>>
                           /\ slot' = slot
      ]_vars

\* A call recognised bob: the slot holds bob with the confidence of the
\* result and the current time, and one event was fired.
C17_Witness ==
    /\ lastOp.op = "stt_done"
    /\ lastOp.recognition.kind = "result"
    /\ lastOp.recognition.user_id = "bob"
    /\ slot = Entry("bob", lastOp.recognition.confidence, now)
    /\ now > 0
    /\ Len(lastOp.events) = 1

\* The concatenation of the chunks of a stream.
RECURSIVE Concat(_)
Concat(chunks) ==
    IF chunks = <<>> THEN <<>> ELSE Head(chunks) \o Concat(Tail(chunks))

\* C18: in a call of the speech bridge the wrapped entity receives the chunks
\* of the stream, all of them and in their order, and the buffer the call
\* hands to recognize is the concatenation of all chunks of the stream in
\* their order.
C18_Tee ==
    Transcription
        => /\ lastOp.delivered = lastOp.stream
           /\ lastOp.invoked => lastOp.buffer = Concat(lastOp.stream)

\* =================================================================== C19-C20
\* Properties of the slot.

\* A call of a speech bridge has just stored a result in the slot.
Published == lastOp.op = "stt_done" /\ lastOp.recognition.kind = "result"

\* C19: a call of a speech bridge that stores a result replaces the slot by
\* the user and confidence of that result and the loop time of the store,
\* whatever the slot held and whichever bridge stored it; the slot changes in
\* no other step, and the time of its entry never decreases.
C19_LastWriteWins ==
    [][ /\ Published'
            => /\ slot' = Entry(lastOp'.recognition.user_id,
                                lastOp'.recognition.confidence, now)
               /\ slot'.timestamp = now'
        /\ slot' # slot => Published'
        /\ (slot # NoEntry /\ slot' # slot) => slot'.timestamp >= slot.timestamp
      ]_vars

\* The bridge of the hall replaced an entry of the slot by its own result,
\* of another user, while the call of the bridge of the kitchen, which holds
\* a result of its own, has yet to store it.
C19_Witness ==
    /\ Published
    /\ lastOp.replaced
    /\ lastOp.entity_id = "stt.hall"
    /\ slot = Entry("bob", 7, now)
    /\ stt["stt.kitchen"].pc = "recognized"
    /\ stt["stt.kitchen"].recognition.kind = "result"
    /\ stt["stt.kitchen"].recognition.user_id = "alice"

\* C20: a process call leaves the slot as it is in each of its branches, and
\* no step of a bridge makes a slot that holds an entry hold none.
C20_ReadKeepsSlot ==
    [][ /\ lastOp'.op \in {"process_forward", "process_done"} => slot' = slot
        /\ slot # NoEntry => slot' # NoEntry
      ]_vars

\* A process call built a request from an entry that is older than 0 and
\* still fresh, and the entry is still in the slot.
C20_Witness ==
    /\ Forwarded
    /\ lastOp.built
    /\ lastOp.forwarded.context.user_id = slot.user_id
    /\ now - slot.timestamp > 0
    /\ now - slot.timestamp < 5

\* ======================================================================= C21
\* The speech bridge and the conversation bridge end to end.

\* C21: a call of the speech bridge that recognised a user stores that user
\* in the slot; and a request that names no user, processed while the slot
\* holds an entry that passes the threshold of the conversation bridge and
\* is less than 5 old, is forwarded to the wrapped agent with the user of
\* the entry as acting user, a user the engine holds a reference embedding
\* of, and the result of the agent for that request is returned.
C21_EndToEnd ==
    [][ /\ Published'
            => /\ slot'.user_id = lastOp'.recognition.user_id
               /\ slot'.confidence = lastOp'.recognition.confidence
               /\ slot'.timestamp = now
        /\ ( /\ lastOp'.op = "process_forward"
             /\ agentAvail
             /\ slot # NoEntry
             /\ slot.confidence >= ConfiguredMinConfidence
             /\ now - slot.timestamp < 5
             /\ lastOp'.request.context.user_id = NoUser )
            => /\ lastOp'.forwarded = WithUser(lastOp'.request, slot.user_id)
               /\ slot.user_id \in Keys(refs)
               /\ slot' = slot
        /\ (lastOp'.op = "process_done" /\ agentAvail)
            => /\ lastOp'.forwarded = convCall.forwarded
               /\ lastOp'.result = AgentResult(convCall.forwarded)
      ]_vars

\* An entry of alice with confidence 0.9 was stored at time 0; at time 1 a
\* request that names no user was forwarded with alice as acting user.
C21_Witness ==
    /\ Forwarded
    /\ slot = Entry("alice", 9, 0)
    /\ now = 1
    /\ lastOp.request = Request(NoUser)
    /\ lastOp.forwarded = Request("alice")

\* ======================================================================= C22
\* recognize while a train call is in flight.

\* The mapping the loop of _train_sync leaves when it goes on from sample i
\* of `samples` with the mapping rf, the cache ch and the media directory fl.
RECURSIVE TrainOutcome(_, _, _, _, _)
TrainOutcome(samples, i, rf, ch, fl) ==
    IF i > Len(samples)
    THEN rf
    ELSE LET r == train_sample(samples[i], rf, ch, fl)
         IN  TrainOutcome(samples, i + 1, r.refs, r.cache, fl)

\* C22: when _recognize_sync has scored audio while the loop of a train call
\* is in flight, the mapping it read is the whole mapping the train call
\* found or the whole mapping the train call leaves, and its scores have one
\* entry for each owner of that mapping.
C22_AtomicSwap ==
    \A j \in Jobs :
        ( /\ lastOp.op = "recognize_done"
          /\ lastOp.backend
          /\ lastOp.audio.wave # <<>>
          /\ trainPc[j] \in {"loop", "load", "check", "embed", "save", "write", "assign"}
          /\ \A k \in Jobs \ {j} : trainPc[k] = "idle" )
            => LET after == TrainOutcome(trainList[j], trainIdx[j], refs, cache, files)
               IN  /\ refs \in {trainPrev[j], after}
                   /\ lastOp.result.kind = "result"
                        => Keys(lastOp.result.all_scores)
                             \in {Keys(trainPrev[j]), Keys(after)}

\* ======================================================================= C23
\* The entries of the slot under concurrent writers and a reader.

\* C23: with two speech bridges whose calls interleave and a conversation
\* bridge that reads between any two of their steps, every change of the slot
\* is the store of one call and gives the slot the user and confidence of
\* that call's result and the loop time of that store, and a process call
\* that builds a request took the user, the confidence and the time it
\* decided on from the one entry the slot holds.
C23_NoTornEntries ==
    [][ /\ slot' # slot
            => /\ Published'
               /\ slot'.user_id = lastOp'.recognition.user_id
               /\ slot'.confidence = lastOp'.recognition.confidence
               /\ slot'.timestamp = now
        /\ (lastOp'.op = "process_forward" /\ lastOp'.built)
            => /\ slot # NoEntry
               /\ lastOp'.forwarded.context.user_id = slot.user_id
               /\ slot.confidence >= ConfiguredMinConfidence
               /\ now - slot.timestamp < FreshnessWindow
               /\ slot' = slot
      ]_vars

\* A process call built a request from the entry of bob, stored over an
\* older time, while one bridge holds a result of alice it has yet to store
\* and the call of the other bridge is still at its worker.
C23_Witness ==
    /\ Forwarded
    /\ lastOp.built
    /\ lastOp.forwarded.context.user_id = "bob"
    /\ slot = Entry("bob", 7, 1)
    /\ stt["stt.kitchen"].pc = "recognized"
    /\ stt["stt.kitchen"].recognition.kind = "result"
    /\ stt["stt.kitchen"].recognition.user_id = "alice"
    /\ stt["stt.hall"].pc = "recognize"

\* ======================================================================= C24
\* The order of the steps of one call of the speech bridge.

\* C24: while recognition of a call of the speech bridge is under way or
\* done, the wrapped entity has returned its result and every chunk of the
\* stream of the call has been read.
C24_RecognizeAfterStream ==
    \A entity_id \in Bridges :
        stt[entity_id].pc \in {"recognize", "scoring", "recognized"}
            => /\ stt[entity_id].result # NoSpeech
               /\ stt[entity_id].pos = Len(stt[entity_id].stream)

\* ======================================================================= C25
\* The key of the embedding cache.

\* C25: when an iteration of the loop of a train call loads the embedding of
\* its sample from the cache, the embedding is one that was stored for the
\* path of that very sample: on a media directory that does not change, the
\* embedding of the sample's own file.
C25_CacheKeyedByPath ==
    [][ ( /\ lastOp'.op = "train_load"
          /\ trainPc'[Stepping] = "assign" )
            => LET full_path == full_path_of(SteppingSample)
               IN  /\ files[full_path].exists
                   /\ files[full_path].wave = trainEmb'[Stepping]
      ]_vars

\* ======================================================================= C26
\* A stream that ends or is aborted.

\* C26: a call of the speech bridge whose stream was read to its end or to
\* the point where it was aborted, and whose wrapped entity returned a
\* result, returns that result; when no byte was collected it does not
\* invoke recognize, fires no event and leaves the slot as it is.
C26_AbortKeepsResult ==
    [][ ( /\ lastOp'.op = "stt_done"
          /\ lastOp'.wrapped # NoSpeech
          /\ lastOp'.delivered = lastOp'.stream )
            => /\ lastOp'.result = lastOp'.wrapped
               /\ lastOp'.buffer = <<>>
                    => /\ ~lastOp'.invoked
                       /\ lastOp'.events = <<>>
                       /\ slot' = slot
      ]_vars

\* =================================================================== C27-C28
\* Properties of the bridges as entities of the host.

\* C27: after a state change of the wrapped entity that the bridge has
\* handled, the bridge is available exactly when the wrapped entity has a
\* state other than unavailable, and, when it is available and the wrapped
\* entity object is there, what the bridge has cached of its capabilities is
\* what the wrapped entity has now.
C27_AvailabilityMirroring ==
    [][ (lastOp'.op = "state_changed" /\ lastOp'.handled)
            => LET bridge == host'[lastOp'.platform]
               IN  /\ bridge.available
                        = (bridge.state # NoState /\ bridge.state # STATE_UNAVAILABLE)
                   /\ (bridge.available /\ bridge.source)
                        => bridge.cached = bridge.caps
      ]_vars

\* C28: when the entry of a bridge is set up while the entity it wraps is
\* not registered, the set-up fails and no entity is added.
C28_SetupFailsWithoutBackend ==
    (lastOp.op = "setup_done" /\ ~lastOp.registered)
        => /\ lastOp.outcome \in {"failed", "raised"}
           /\ host[lastOp.platform].setup # "added"

\* =================================================================== C29-C30
\* Properties of the states a train call goes through.

\* C29: in every state, those in the middle of a train call included, an
\* engine whose flag says it is trained holds at least one reference
\* embedding.
C29_TrainedHasReferences == trained => refs # <<>>

\* C30: an iteration of the loop of a train call enrols its sample only when
\* the audio file of the sample exists and can be decoded at that time,
\* whether or not a cache artifact is there for it.
C30_MissingFileNotEnrolled ==
    [][ (lastOp'.op = "train_assign")
            => LET full_path == full_path_of(SteppingSample)
               IN  /\ files[full_path].exists
                   /\ files[full_path].wave # <<>>
      ]_vars

\* ======================================================================= C31
\* The owner the conversation bridge substitutes.

\* C31: whenever a process call builds a request with the owner of the entry
\* of the slot as acting user, the engine is trained and that owner is a key
\* of its reference mapping.
C31_SubstitutedOwnerEnrolled ==
    [][ (lastOp'.op = "process_forward" /\ lastOp'.built)
            => /\ trained
               /\ lastOp'.forwarded.context.user_id \in Keys(refs)
      ]_vars

\* ======================================================================= C32
\* The threshold of the conversation bridge.

\* C32: a process call that finds a fresh entry in the slot, on a request
\* that names no user, substitutes the owner of the entry exactly when the
\* confidence of the entry is at least the value of the property
\* min_confidence of the bridge, however the entry of the bridge is
\* configured.
C32_ThresholdIsProperty ==
    [][ ( /\ lastOp'.op = "process_forward"
          /\ agentAvail
          /\ slot # NoEntry
          /\ now - slot.timestamp < FreshnessWindow
          /\ lastOp'.request.context.user_id = NoUser )
            => (lastOp'.built <=> slot.confidence >= min_confidence_property(convData))
      ]_vars

\* ======================================================================= C33
\* The life of the main entry.

\* C33: when the set-up of the main entry or the handling of an update of
\* its options has ended, the entry holds an engine as runtime_data, and the
\* engine is trained exactly when its sample list is not empty and a train
\* call on it enrols a sample; and no call of a speech bridge stores a result
\* while the sample list is empty.
C33_MainLifecycle ==
    [][ /\ lastOp'.op \in {"main_setup_done", "main_update_done"}
            => /\ engineAvail'
               /\ trained' <=> ( /\ voice_samples' # <<>>
                                 /\ TrainOutcome(voice_samples', 1, <<>>, cache', files')
                                        # <<>> )
        /\ Published' => voice_samples # <<>>
      ]_vars

====
